---------------------------- MODULE Spec2Model ----------------------------
(***************************************************************************)
(* Model of the command execution pipeline of becas-Score:                 *)
(*   - the approval gate of src/core/bot.js (requestPlanApproval and the   *)
(*     MessageCreate handler that calls it): SessionSpec for one request,  *)
(*     SessionFairSpec with the collector's timer fair, ApprovalSpec and   *)
(*     ConcurrentSpec for concurrent requests;                             *)
(*   - the workflow runner of src/workflow/actionHandler.js                *)
(*     (WorkflowEngine.executeWorkflow, _executeSequential,                *)
(*     _executeParallel): RunnerSpec for one call with every plan,         *)
(*     WorkflowSpec for concurrent calls on one engine;                    *)
(*   - the language model service of src/ai/llmService.js: GenerateSpec    *)
(*     for generateResponse, RepairSpec for _fixJsonFormat, FallbackSpec   *)
(*     for _generateFallbackResponse;                                      *)
(*   - the action resolver of src/core/dynamicHandler.js (executeAction):  *)
(*     HandlerSpec for one step;                                           *)
(*   - the event bus of src/core/eventBus.js: BusSpec for one emit after   *)
(*     listeners were added and removed, ScopeSpec for the listeners of    *)
(*     extensions on two events.                                           *)
(***************************************************************************)
EXTENDS Integers, Sequences, FiniteSets, TLC

(***************************************************************************)
(* Bounds of the model.                                                    *)
(***************************************************************************)
MaxRequests == 2
MaxPlanSteps == 1
TicksPerWindow == 2
MaxWorkflows == 2
MaxSteps == 2
MaxClock == 1
MaxRand == 1
MaxGenCalls == 2
MaxListeners == 3
MaxTextSteps == 2
MaxTimes == 6

(***************************************************************************)
(* Program constants.                                                      *)
(***************************************************************************)
ApprovalWindowMs == 30000
RandRange == 1000
RetryAttempts == 3
RetryDelay == 1000

Requests == 1..MaxRequests
Users == {"u1", "u2"}

\* Reaction emojis: the two signals the approval message offers and one other.
Accept == "accept"
Reject == "reject"
Emojis == {Accept, Reject, "other"}

\* Tools a plan step may name; only discord.request steps are dispatched.
Tools == {"discord.request", "other"}

RECURSIVE SeqsUpTo(_, _)
SeqsUpTo(S, n) ==
  IF n = 0 THEN {<<>>}
  ELSE LET shorter == SeqsUpTo(S, n - 1)
       IN  shorter \cup {Append(s, x) : s \in {t \in shorter : Len(t) = n - 1}, x \in S}

\* The value planGenerator.generatePlan hands to the handler: no usable plan,
\* or a plan with its requiresApproval flag and the tools of its steps.
NoPlan == [valid |-> FALSE, requiresApproval |-> FALSE, steps |-> <<>>]
Plans ==
  {NoPlan} \cup
  [valid : {TRUE}, requiresApproval : BOOLEAN, steps : SeqsUpTo(Tools, MaxPlanSteps)]

NoMessage == [author |-> "nobody", admin |-> FALSE]

NoAck == [req |-> 0, treated |-> "none"]
Ack(r, how) == [req |-> r, treated |-> how]

VARIABLES
  config,      \* config.AUTO_APPROVE_ADMINS
  pc,          \* position of each MessageCreate handler invocation
  message,     \* the message of each request: author and ADMINISTRATOR permission
  plan,        \* the plan generated for each request
  session,     \* state of the request's approval session
  elapsed,     \* ms run of the reaction collector's timer
  lastAck,     \* the latest reaction on an approval message: whose, and how treated
  notices,     \* replies sent on the approval message
  executed,    \* calls of executeApprovedPlan for the request's plan
  cursor,      \* steps of the plan the execution loop has passed
  dispatched   \* calls of the action executor for the request's plan

approvalVars ==
  <<config, pc, message, plan, session, elapsed, lastAck, notices,
    executed, cursor, dispatched>>

VARIABLES
  now,             \* Date.now()
  activeWorkflows, \* WorkflowEngine.activeWorkflows: workflow id -> record
  wpc,             \* position of each executeWorkflow call
  wplan,           \* the plan each call was given
  workflowId,      \* the id each call generated
  results,         \* the results array local to the call's strategy
  begun,           \* steps whose _executeStep call has begun
  outcome,         \* how the _executeStep call of each step ended
  settled,         \* parallel strategy: the step promises' values, as they settled
  ret              \* the value executeWorkflow returned

workflowVars ==
  <<now, activeWorkflows, wpc, wplan, workflowId, results, begun, outcome,
    settled, ret>>

VARIABLES
  retryDelay,      \* LLMService.retryDelay, a field of the service instance
  gpc,             \* position of each generateResponse invocation
  prompts,         \* the user prompt each invocation was given
  attemptCount,    \* the invocation's attemptCount
  backendCalls,    \* requests the invocation has sent to the backend
  replies,         \* how each answered request of the invocation ended
  delays,          \* the delays of the timers the invocation has set
  generated        \* what the invocation returned or threw

generateVars ==
  <<retryDelay, gpc, prompts, attemptCount, backendCalls, replies, delays,
    generated>>

VARIABLES
  payload,         \* a backend text, with the plan text it was meant to be
  fixed,           \* what _fixJsonFormat returned for it
  userText,        \* a user text
  fallback         \* what _generateFallbackResponse returned for it

textVars == <<payload, fixed, userText, fallback>>

VARIABLES
  stepParams,            \* the params of the step handed to executeAction
  messageContent,        \* message.content of the user message
  dynamicExtensionCount, \* DynamicHandler.dynamicExtensionCount
  handled,               \* what executeAction returned, and the handlers it called
  dynamicResults         \* dynamicResults of executeApprovedPlan

handlerVars ==
  <<stepParams, messageContent, dynamicExtensionCount, handled, dynamicResults>>

VARIABLES
  listeners,       \* EventBus.listeners: the array of each event
  nextId,          \* EventBus.nextId
  removed,         \* what the last removeListener or removeExtensionListeners returned
  epc,             \* position of the emit call
  emitEvent,       \* the event of the emit call
  emitArray,       \* the array the loop of the emit call iterates
  emitIndex,       \* how many elements the loop has taken from it
  emitHandled,     \* the local handled of the emit call
  invoked,         \* the listeners the emit call has invoked, in order
  emitted,         \* what the emit call returned
  registered       \* the array of the event when the emit call began

busVars ==
  <<listeners, nextId, removed, epc, emitEvent, emitArray, emitIndex,
    emitHandled, invoked, emitted, registered>>

vars ==
  <<approvalVars, workflowVars, generateVars, textVars, handlerVars, busVars>>

\* What the actions of each part leave unchanged.
exceptApproval == <<workflowVars, generateVars, textVars, handlerVars, busVars>>
exceptWorkflow == <<approvalVars, generateVars, textVars, handlerVars, busVars>>
exceptGenerate == <<approvalVars, workflowVars, textVars, handlerVars, busVars>>
exceptText == <<approvalVars, workflowVars, generateVars, handlerVars, busVars>>
exceptHandler == <<approvalVars, workflowVars, generateVars, textVars, busVars>>
exceptBus == <<approvalVars, workflowVars, generateVars, textVars, handlerVars>>

Terminal == {"Approved", "Rejected", "Expired"}

TickMs == ApprovalWindowMs \div TicksPerWindow

(***************************************************************************)
(* src/core/bot.js                                                         *)
(***************************************************************************)
ApprovalInit ==
  /\ config \in [AUTO_APPROVE_ADMINS : BOOLEAN]
  /\ pc = [r \in Requests |-> "idle"]
  /\ message = [r \in Requests |-> NoMessage]
  /\ plan = [r \in Requests |-> NoPlan]
  /\ session = [r \in Requests |-> "None"]
  /\ elapsed = [r \in Requests |-> 0]
  /\ lastAck = NoAck
  /\ notices = [r \in Requests |-> {}]
  /\ executed = [r \in Requests |-> 0]
  /\ cursor = [r \in Requests |-> 0]
  /\ dispatched = [r \in Requests |-> 0]

\* Faulty variant: administrators are exempt whatever the configuration.
NeedsApprovalAdminsExempt(p, m) == p.requiresApproval /\ ~m.admin

\* bot.js 82-84: the condition under which the handler asks for approval.
NeedsApproval(p, m) ==
  p.requiresApproval /\ ~(config.AUTO_APPROVE_ADMINS /\ m.admin)

\* Faulty variant: the filter does not compare the user with the author.
filterAnyUser(r, user, emoji) == emoji \in {Accept, Reject}

\* bot.js 131-133: the collector's filter.
filter(r, user, emoji) ==
  emoji \in {Accept, Reject} /\ user = message[r].author

\* bot.js 68-74: the special command handler or the plan generator throws,
\* or the promise of one of them rejects; the error raises to the handler's
\* catch (bot.js 92).
GenerateFails(r, user, admin) ==
  /\ pc[r] = "idle"
  /\ message' = [message EXCEPT ![r] = [author |-> user, admin |-> admin]]
  /\ pc' = [pc EXCEPT ![r] = "caught"]
  /\ UNCHANGED <<config, plan, session, elapsed, lastAck, notices, executed,
                 cursor, dispatched>>
  /\ UNCHANGED exceptApproval

\* bot.js 73-92: the handler from the generated plan to the approval gate; a
\* failed reply to a request without a plan (78) raises to the handler's
\* catch.
MessageCreate(r, user, admin, p) ==
  /\ pc[r] = "idle"
  /\ message' = [message EXCEPT ![r] = [author |-> user, admin |-> admin]]
  /\ plan' = [plan EXCEPT ![r] = p]
  /\ IF ~p.valid
       THEN /\ \E sent \in BOOLEAN :
                 pc' = [pc EXCEPT ![r] = IF sent THEN "done" ELSE "caught"]
            /\ UNCHANGED executed
       ELSE IF NeedsApproval(p, [author |-> user, admin |-> admin])
         THEN /\ pc' = [pc EXCEPT ![r] = "proposing"]
              /\ UNCHANGED executed
         ELSE /\ pc' = [pc EXCEPT ![r] = "executing"]
              /\ executed' = [executed EXCEPT ![r] = @ + 1]
  /\ UNCHANGED <<config, session, elapsed, lastAck, notices, cursor, dispatched>>
  /\ UNCHANGED exceptApproval

\* bot.js 112-142: the approval message is sent and the collector starts; a
\* failed send raises to the handler's catch (bot.js 92).
Propose(r, sent) ==
  /\ pc[r] = "proposing"
  /\ IF sent
       THEN /\ pc' = [pc EXCEPT ![r] = "awaiting"]
            /\ session' = [session EXCEPT ![r] = "Proposed"]
            /\ notices' = [notices EXCEPT ![r] = @ \cup {"approvePlan"}]
       ELSE /\ pc' = [pc EXCEPT ![r] = "caught"]
            /\ UNCHANGED <<session, notices>>
  /\ UNCHANGED <<config, message, plan, elapsed, lastAck, executed, cursor, dispatched>>
  /\ UNCHANGED exceptApproval

\* Faulty variant: the collector does not end (no max: 1, timer not cleared).
CollectorOpenAlways(r) == session[r] # "None"

\* bot.js 137-142: the collector is open while the handler awaits it; with
\* max: 1 it ends at the first reaction that passes the filter, or at its
\* timer, and ending clears the timer.
CollectorOpen(r) == pc[r] = "awaiting"

\* A reaction is added to the approval message of request r (bot.js 131-151);
\* a reaction after the collector has ended reaches no collector.

Reaction(r, user, emoji) ==
  /\ session[r] # "None"
  /\ IF ~CollectorOpen(r)
       THEN /\ lastAck' = Ack(r, "late")
            /\ UNCHANGED <<pc, session, elapsed>>
       ELSE IF ~filter(r, user, emoji)
         THEN /\ lastAck' = Ack(r, "filtered")
              /\ UNCHANGED <<pc, session, elapsed>>
         ELSE /\ lastAck' = Ack(r, "counted")
              /\ elapsed' = [elapsed EXCEPT ![r] = 0]
              /\ IF emoji = Accept
                   THEN /\ session' = [session EXCEPT ![r] = "Approved"]
                        /\ pc' = [pc EXCEPT ![r] = "notifyApproved"]
                   ELSE /\ session' = [session EXCEPT ![r] = "Rejected"]
                        /\ pc' = [pc EXCEPT ![r] = "notifyRejected"]
  /\ UNCHANGED <<config, message, plan, notices, executed, cursor, dispatched>>
  /\ UNCHANGED exceptApproval

\* Time passes while the collector of request r waits (time: 30000).
Tick(r) ==
  /\ CollectorOpen(r)
  /\ elapsed[r] < ApprovalWindowMs
  /\ elapsed' = [elapsed EXCEPT ![r] = @ + TickMs]
  /\ UNCHANGED <<config, pc, message, plan, session, lastAck, notices,
                 executed, cursor, dispatched>>
  /\ UNCHANGED exceptApproval

\* bot.js 140-141, 152: the collector's timer ends it with reason 'time' and
\* awaitReactions rejects.
Timeout(r) ==
  /\ CollectorOpen(r)
  /\ elapsed[r] >= ApprovalWindowMs
  /\ session' = [session EXCEPT ![r] = "Expired"]
  /\ pc' = [pc EXCEPT ![r] = "notifyExpired"]
  /\ elapsed' = [elapsed EXCEPT ![r] = 0]
  /\ UNCHANGED <<config, message, plan, lastAck, notices,
                 executed, cursor, dispatched>>
  /\ UNCHANGED exceptApproval

\* bot.js 146-148: the accept branch; a failed reply raises into the catch of
\* bot.js 152-154.
NotifyApproved(r, sent) ==
  /\ pc[r] = "notifyApproved"
  /\ IF sent
       THEN /\ notices' = [notices EXCEPT ![r] = @ \cup {"planApproved"}]
            /\ pc' = [pc EXCEPT ![r] = "executing"]
            /\ executed' = [executed EXCEPT ![r] = @ + 1]
       ELSE /\ pc' = [pc EXCEPT ![r] = "notifyExpired"]
            /\ UNCHANGED <<notices, executed>>
  /\ UNCHANGED <<config, message, plan, session, elapsed, lastAck, cursor, dispatched>>
  /\ UNCHANGED exceptApproval

\* Faulty variant: the reject branch falls through to onApproved.
NotifyRejectedThenRuns(r, sent) ==
  /\ pc[r] = "notifyRejected"
  /\ notices' = [notices EXCEPT ![r] = IF sent THEN @ \cup {"planRejected"} ELSE @]
  /\ pc' = [pc EXCEPT ![r] = "executing"]
  /\ executed' = [executed EXCEPT ![r] = @ + 1]
  /\ UNCHANGED <<config, message, plan, session, elapsed, lastAck, cursor, dispatched>>
  /\ UNCHANGED exceptApproval

\* bot.js 149-151: the reject branch.
NotifyRejected(r, sent) ==
  /\ pc[r] = "notifyRejected"
  /\ IF sent
       THEN /\ notices' = [notices EXCEPT ![r] = @ \cup {"planRejected"}]
            /\ pc' = [pc EXCEPT ![r] = "done"]
       ELSE /\ pc' = [pc EXCEPT ![r] = "notifyExpired"]
            /\ UNCHANGED notices
  /\ UNCHANGED <<config, message, plan, session, elapsed, lastAck,
                 executed, cursor, dispatched>>
  /\ UNCHANGED exceptApproval

\* bot.js 152-154: the catch branch; a failed reply raises to the handler's
\* catch (bot.js 92).
NotifyExpired(r, sent) ==
  /\ pc[r] = "notifyExpired"
  /\ notices' = [notices EXCEPT ![r] = IF sent THEN @ \cup {"planExpired"} ELSE @]
  /\ pc' = [pc EXCEPT ![r] = IF sent THEN "done" ELSE "caught"]
  /\ UNCHANGED <<config, message, plan, session, elapsed, lastAck,
                 executed, cursor, dispatched>>
  /\ UNCHANGED exceptApproval

\* Faulty variant: nothing catches the error, neither the handler nor the
\* process (src/ai/modelAdapter.js 183-191), and the process ends.
CatchNothing(r, sent) ==
  /\ pc[r] = "caught"
  /\ pc' = [q \in Requests |-> "exited"]
  /\ UNCHANGED <<config, message, plan, session, elapsed, lastAck, notices,
                 executed, cursor, dispatched>>
  /\ UNCHANGED exceptApproval

\* bot.js 92-99: the handler's catch logs the error and replies with it; an
\* error of that reply is caught and logged too, and the invocation ends.
Catch(r, sent) ==
  /\ pc[r] = "caught"
  /\ notices' = [notices EXCEPT ![r] = IF sent THEN @ \cup {"error"} ELSE @]
  /\ pc' = [pc EXCEPT ![r] = "done"]
  /\ UNCHANGED <<config, message, plan, session, elapsed, lastAck,
                 executed, cursor, dispatched>>
  /\ UNCHANGED exceptApproval

\* bot.js 171-173: the next step at or after position c + 1 that the loop hands
\* to the action executor (tool discord.request); 0 when there is none.
NextRequest(steps, c) ==
  IF \E k \in (c + 1)..Len(steps) : steps[k] = "discord.request"
    THEN CHOOSE k \in (c + 1)..Len(steps) :
           /\ steps[k] = "discord.request"
           /\ \A j \in (c + 1)..(k - 1) : steps[j] # "discord.request"
    ELSE 0

\* bot.js 171-214: the loop of executeApprovedPlan passes the steps of other
\* tools and hands the next discord.request step to the action executor.
ExecuteStep(r) ==
  /\ pc[r] = "executing"
  /\ NextRequest(plan[r].steps, cursor[r]) # 0
  /\ cursor' = [cursor EXCEPT ![r] = NextRequest(plan[r].steps, @)]
  /\ dispatched' = [dispatched EXCEPT ![r] = @ + 1]
  /\ UNCHANGED <<config, pc, message, plan, session, elapsed, lastAck, notices, executed>>
  /\ UNCHANGED exceptApproval

\* bot.js 171-234: no discord.request step is left; the loop ends and the
\* summary is sent.
FinishPlan(r) ==
  /\ pc[r] = "executing"
  /\ NextRequest(plan[r].steps, cursor[r]) = 0
  /\ cursor' = [cursor EXCEPT ![r] = Len(plan[r].steps)]
  /\ pc' = [pc EXCEPT ![r] = "done"]
  /\ UNCHANGED <<config, message, plan, session, elapsed, lastAck, notices,
                 executed, dispatched>>
  /\ UNCHANGED exceptApproval

\* The steps of the handler invocation for request r.
Handler(r) ==
  \/ \E u \in Users, a \in BOOLEAN : GenerateFails(r, u, a)
  \/ \E u \in Users, a \in BOOLEAN, p \in Plans : MessageCreate(r, u, a, p)
  \/ \E sent \in BOOLEAN : Propose(r, sent)
  \/ \E u \in Users, e \in Emojis : Reaction(r, u, e)
  \/ Tick(r)
  \/ Timeout(r)
  \/ \E sent \in BOOLEAN : NotifyApproved(r, sent)
  \/ \E sent \in BOOLEAN : NotifyRejected(r, sent)
  \/ \E sent \in BOOLEAN : NotifyExpired(r, sent)
  \/ \E sent \in BOOLEAN : Catch(r, sent)
  \/ ExecuteStep(r)
  \/ FinishPlan(r)

\* One request and its approval session.
SessionNext == Handler(1)

\* Requests handled concurrently.
ApprovalNext == \E r \in Requests : Handler(r)

\* Requests handled concurrently, all of one user without the ADMINISTRATOR
\* permission, with plans of discord.request steps that require approval; the
\* user reacts while the collector is open.
RequestPlans ==
  {p \in Plans :
     p.valid => /\ p.requiresApproval
                /\ p.steps # <<>>
                /\ \A k \in 1..Len(p.steps) : p.steps[k] = "discord.request"}

ConcurrentNext ==
  \E r \in Requests :
    \/ GenerateFails(r, "u1", FALSE)
    \/ \E p \in RequestPlans : MessageCreate(r, "u1", FALSE, p)
    \/ \E sent \in BOOLEAN : Propose(r, sent)
    \/ CollectorOpen(r) /\ \E e \in {Accept, Reject} : Reaction(r, "u1", e)
    \/ Tick(r)
    \/ Timeout(r)
    \/ \E sent \in BOOLEAN : NotifyApproved(r, sent)
    \/ \E sent \in BOOLEAN : NotifyRejected(r, sent)
    \/ \E sent \in BOOLEAN : NotifyExpired(r, sent)
    \/ \E sent \in BOOLEAN : Catch(r, sent)
    \/ ExecuteStep(r)
    \/ FinishPlan(r)

(***************************************************************************)
(* src/workflow/actionHandler.js: WorkflowEngine                           *)
(***************************************************************************)
Workflows == 1..MaxWorkflows

\* plan.meta?.strategy: the two recognised values, an unrecognised one, the
\* empty string, and no strategy at all.
NoStrategy == "undefined"
Strategies == {"sequential", "parallel", "turbo", "", NoStrategy}
Falsy == {"", NoStrategy}

\* What a call of _executeStep can do: return a result with success true,
\* return a result with success false, or throw.
Outcomes == {"ok", "fail", "throw"}

WfSteps == [critical : BOOLEAN]
InvalidPlan == [valid |-> FALSE, strategy |-> NoStrategy, steps |-> <<>>]
WfPlans ==
  {InvalidPlan} \cup
  [valid : {TRUE}, strategy : Strategies, steps : SeqsUpTo(WfSteps, MaxSteps)]

NoId == <<-1, -1>>
NoRet == [returned |-> FALSE, success |-> FALSE, results |-> <<>>, error |-> "none"]

WorkflowInit ==
  /\ now = 0
  /\ activeWorkflows = [id \in {} |-> 0]
  /\ wpc = [w \in Workflows |-> "idle"]
  /\ wplan = [w \in Workflows |-> InvalidPlan]
  /\ workflowId = [w \in Workflows |-> NoId]
  /\ results = [w \in Workflows |-> <<>>]
  /\ begun = [w \in Workflows |-> {}]
  /\ outcome = [w \in Workflows |-> [k \in 1..MaxSteps |-> "none"]]
  /\ settled = [w \in Workflows |-> <<>>]
  /\ ret = [w \in Workflows |-> NoRet]

\* Faulty variant: every strategy other than parallel is run as sequential.
StrategyAlwaysRuns(p) == IF p.strategy = "parallel" THEN "parallel" ELSE "sequential"

\* actionHandler.js 633: plan.meta?.strategy || 'sequential'.
Strategy(p) == IF p.strategy \in Falsy THEN "sequential" ELSE p.strategy

\* actionHandler.js 619: the values Math.floor(Math.random() * 1000) takes here.
Rands == 0..(IF MaxRand < RandRange THEN MaxRand ELSE RandRange - 1)

\* The results a registry record holds: its own empty array (622-629) until a
\* call stores a reference to its local results array (701, 648).
RecordResults(rec) == IF rec.resultsRef = 0 THEN <<>> ELSE results[rec.resultsRef]

\* The steps whose _executeStep call has returned or thrown.
Resolved(w) == {k \in 1..MaxSteps : outcome[w][k] # "none"}

Put(f, k, v) == [x \in DOMAIN f \cup {k} |-> IF x = k THEN v ELSE f[x]]

\* Time passes.
ClockTick ==
  /\ now < MaxClock
  /\ now' = now + 1
  /\ UNCHANGED <<activeWorkflows, wpc, wplan, workflowId, results, begun,
                 outcome, settled, ret>>
  /\ UNCHANGED exceptWorkflow

\* actionHandler.js 614-629: validation, id generation, registration.
ExecuteWorkflow(w, p, rnd) ==
  /\ wpc[w] = "idle"
  /\ wplan' = [wplan EXCEPT ![w] = p]
  /\ IF ~p.valid
       THEN /\ wpc' = [wpc EXCEPT ![w] = "returned"]
            /\ ret' = [ret EXCEPT ![w] = [returned |-> TRUE, success |-> FALSE,
                                          results |-> <<>>,
                                          error |-> "Invalid workflow plan"]]
            /\ UNCHANGED <<activeWorkflows, workflowId>>
       ELSE /\ wpc' = [wpc EXCEPT ![w] = "registered"]
            /\ workflowId' = [workflowId EXCEPT ![w] = <<now, rnd>>]
            /\ activeWorkflows' =
                 Put(activeWorkflows, <<now, rnd>>,
                     [id |-> <<now, rnd>>, plan |-> w, startTime |-> now,
                      status |-> "running", resultsRef |-> 0, currentStep |-> 0,
                      error |-> "none"])
            /\ UNCHANGED ret
  /\ UNCHANGED <<now, results, begun, outcome, settled>>
  /\ UNCHANGED exceptWorkflow

\* actionHandler.js 645-654: the strategy returned its results.
Completed(w, res) ==
  /\ activeWorkflows' =
       [activeWorkflows EXCEPT ![workflowId[w]] =
          [@ EXCEPT !.status = "completed", !.resultsRef = w]]
  /\ ret' = [ret EXCEPT ![w] = [returned |-> TRUE, success |-> TRUE,
                                results |-> res, error |-> "none"]]
  /\ wpc' = [wpc EXCEPT ![w] = "returned"]

\* actionHandler.js 655-671: the strategy threw.  upd is the registry as the
\* strategy left it.
Failed(w, upd, err) ==
  /\ activeWorkflows' =
       [upd EXCEPT ![workflowId[w]] = [@ EXCEPT !.status = "failed", !.error = err]]
  /\ ret' = [ret EXCEPT ![w] = [returned |-> TRUE, success |-> FALSE,
                                results |-> <<>>, error |-> err]]
  /\ wpc' = [wpc EXCEPT ![w] = "returned"]

\* actionHandler.js 631-642: the strategy is chosen.  An unknown strategy
\* throws; the sequential loop starts; the parallel map calls _executeStep for
\* every step.  A plan without steps completes at once.
StartStrategy(w) ==
  /\ wpc[w] = "registered"
  /\ LET p == wplan[w]
         n == Len(p.steps)
     IN  CASE Strategy(p) = "sequential" ->
                IF n = 0
                  THEN /\ Completed(w, <<>>)
                       /\ UNCHANGED begun
                  ELSE /\ wpc' = [wpc EXCEPT ![w] = "sequential"]
                       /\ UNCHANGED <<activeWorkflows, ret, begun>>
           [] Strategy(p) = "parallel" ->
                IF n = 0
                  THEN /\ Completed(w, <<>>)
                       /\ UNCHANGED begun
                  ELSE /\ wpc' = [wpc EXCEPT ![w] = "parallel"]
                       /\ begun' = [begun EXCEPT ![w] = 1..n]
                       /\ UNCHANGED <<activeWorkflows, ret>>
           [] OTHER ->
                /\ Failed(w, activeWorkflows, "Unknown execution strategy")
                /\ UNCHANGED begun
  /\ UNCHANGED <<now, wplan, workflowId, results, outcome, settled>>
  /\ UNCHANGED exceptWorkflow

\* Faulty variant: the loop does not await the call of the previous step.
SeqReadyNoAwait(w) == TRUE

\* actionHandler.js 685-690: the loop calls _executeStep for the next step once
\* the await of the previous one has returned.
SeqReady(w) == begun[w] = Resolved(w)

SeqDispatch(w) ==
  /\ wpc[w] = "sequential"
  /\ SeqReady(w)
  /\ Cardinality(begun[w]) < Len(wplan[w].steps)
  /\ begun' = [begun EXCEPT ![w] = @ \cup {Cardinality(@) + 1}]
  /\ UNCHANGED <<now, activeWorkflows, wpc, wplan, workflowId, results,
                 outcome, settled, ret>>
  /\ UNCHANGED exceptWorkflow

\* actionHandler.js 691-695 and 710-714: the entries one iteration pushes.
\* A result with success false on a critical step is pushed in the try block,
\* and again in the catch block that receives the error thrown at 706.
Pushed(k, step, out) ==
  IF out = "fail" /\ step.critical
    THEN <<[stepId |-> k, success |-> FALSE], [stepId |-> k, success |-> FALSE]>>
    ELSE <<[stepId |-> k, success |-> out = "ok"]>>

\* Faulty variant: any failed step leaves the loop, critical or not.
AbortsOnAnyFailure(step, out) == out # "ok"

\* actionHandler.js 705-707 and 716-719: the iteration leaves the loop by throwing.
Aborts(step, out) == out # "ok" /\ step.critical

\* actionHandler.js 690-724: the awaited _executeStep call of step k ends.
SeqResolve(w, out) ==
  /\ wpc[w] = "sequential"
  /\ begun[w] # Resolved(w)
  /\ LET k == CHOOSE j \in begun[w] : j \notin Resolved(w)
         step == wplan[w].steps[k]
         id == workflowId[w]
         \* 697-702 run only when the call returned
         upd == IF out = "throw" THEN activeWorkflows
                ELSE [activeWorkflows EXCEPT ![id] =
                        [@ EXCEPT !.currentStep = k, !.resultsRef = w]]
         res == results[w] \o Pushed(k, step, out)
     IN  /\ results' = [results EXCEPT ![w] = res]
         /\ outcome' = [outcome EXCEPT ![w][k] = out]
         /\ IF Aborts(step, out)
              THEN Failed(w, upd, "Critical step failed")
              ELSE IF k = Len(wplan[w].steps)
                THEN /\ activeWorkflows' =
                          [upd EXCEPT ![id] =
                             [@ EXCEPT !.status = "completed", !.resultsRef = w]]
                     /\ ret' = [ret EXCEPT ![w] = [returned |-> TRUE, success |-> TRUE,
                                                   results |-> res, error |-> "none"]]
                     /\ wpc' = [wpc EXCEPT ![w] = "returned"]
                ELSE /\ activeWorkflows' = upd
                     /\ UNCHANGED <<ret, wpc>>
  /\ UNCHANGED <<now, wplan, workflowId, begun, settled>>
  /\ UNCHANGED exceptWorkflow

\* actionHandler.js 749: the array Promise.all resolves to, in step order.
RECURSIVE InStepOrder(_, _)
InStepOrder(vals, n) ==
  IF n = 0 THEN <<>>
  ELSE Append(InStepOrder(vals, n - 1),
              vals[CHOOSE i \in 1..Len(vals) : vals[i].stepId = n])

\* Faulty variant: the join resolves with the first promise that settles.
JoinAny(w, done) == done # {}

\* actionHandler.js 749: Promise.all resolves when every step promise has.
JoinAll(w, done) == done = 1..Len(wplan[w].steps)

\* actionHandler.js 735-749: the promise of step k settles; when the last one
\* has, Promise.all resolves and executeWorkflow completes.

ParResolve(w, k, out) ==
  /\ wpc[w] = "parallel"
  /\ k \in begun[w] \ Resolved(w)
  /\ LET done == Resolved(w) \cup {k}
         vals == Append(settled[w], [stepId |-> k, success |-> out = "ok"])
     IN  /\ outcome' = [outcome EXCEPT ![w][k] = out]
         /\ settled' = [settled EXCEPT ![w] = vals]
         /\ IF JoinAll(w, done)
              THEN LET res == InStepOrder(vals, Len(vals))
                   IN  /\ results' = [results EXCEPT ![w] = res]
                       /\ Completed(w, res)
              ELSE UNCHANGED <<results, activeWorkflows, ret, wpc>>
  /\ UNCHANGED <<now, wplan, workflowId, begun>>
  /\ UNCHANGED exceptWorkflow

\* actionHandler.js 956-971: getWorkflowStatus; null for an id without a
\* record.
NoStatus == [status |-> "null"]

getWorkflowStatus(id) ==
  IF id \notin DOMAIN activeWorkflows THEN NoStatus
  ELSE LET workflow == activeWorkflows[id]
       IN  [id |-> workflow.id,
            status |-> workflow.status,
            startTime |-> workflow.startTime,
            currentStep |-> workflow.currentStep,
            totalSteps |-> Len(wplan[workflow.plan].steps)]

\* The steps of one executeWorkflow call, given a plan from the set P.
Call(w, P) ==
  \/ \E p \in P, rnd \in Rands : ExecuteWorkflow(w, p, rnd)
  \/ StartStrategy(w)
  \/ SeqDispatch(w)
  \/ \E out \in Outcomes : SeqResolve(w, out)
  \/ \E k \in 1..MaxSteps, out \in Outcomes : ParResolve(w, k, out)

\* One call of executeWorkflow, with every plan.
RunnerNext ==
  \/ ClockTick
  \/ Call(1, WfPlans)

\* Concurrent calls of executeWorkflow on one engine, with plans of at most
\* one step.
ShortPlans == {p \in WfPlans : Len(p.steps) <= 1}
WorkflowNext ==
  \/ ClockTick
  \/ \E w \in Workflows : Call(w, ShortPlans)

(***************************************************************************)
(* Strings (JavaScript String methods and the regular expressions of       *)
(* src/ai/llmService.js and src/core/dynamicHandler.js).  A text is a      *)
(* string; positions count from 1, and 0 stands for "not found".           *)
(***************************************************************************)
Chars(s) == {SubSeq(s, i, i) : i \in 1..Len(s)}

\* \s, \d and \w of the regular expressions.
Whitespace == {" ", "\n", "\t", "\r"}
Digits == Chars("0123456789")
LowerCase == "abcdefghijklmnopqrstuvwxyz"
UpperCase == "ABCDEFGHIJKLMNOPQRSTUVWXYZ"
WordChars == Chars(LowerCase) \cup Chars(UpperCase) \cup Digits \cup {"_"}

Min(S) == CHOOSE x \in S : \A y \in S : x <= y
Max(S) == CHOOSE x \in S : \A y \in S : x >= y

charAt(s, i) == IF i >= 1 /\ i <= Len(s) THEN SubSeq(s, i, i) ELSE ""

\* s.substring(i - 1): the text from position i on.
from(s, i) == SubSeq(s, i, Len(s))

\* sub occurs in s at position i.
at(s, sub, i) ==
  /\ i >= 1
  /\ i + Len(sub) - 1 <= Len(s)
  /\ SubSeq(s, i, i + Len(sub) - 1) = sub

indexOf(s, sub) ==
  LET hits == {i \in 1..Len(s) : at(s, sub, i)}
  IN  IF hits = {} THEN 0 ELSE Min(hits)

lastIndexOf(s, sub) ==
  LET hits == {i \in 1..Len(s) : at(s, sub, i)}
  IN  IF hits = {} THEN 0 ELSE Max(hits)

includes(s, sub) == \E i \in 1..(Len(s) + 1) : at(s, sub, i)

startsWith(s, sub) == at(s, sub, 1)

endsWith(s, sub) == at(s, sub, Len(s) - Len(sub) + 1)

\* The first position from i on that holds no character of the class.
RECURSIVE skip(_, _, _)
skip(s, class, i) ==
  IF i >= 1 /\ i <= Len(s) /\ charAt(s, i) \in class
    THEN skip(s, class, i + 1)
    ELSE i

\* The first position from i on that holds a character of the class, or the
\* position after the text.
next(s, class, i) ==
  Min({k \in i..Len(s) : charAt(s, k) \in class} \cup {Len(s) + 1})

RECURSIVE back(_, _, _)
\* The first position of the run of characters of the class that ends at i.
back(s, class, i) ==
  IF i >= 1 /\ charAt(s, i) \in class THEN back(s, class, i - 1) ELSE i + 1

trim(s) ==
  LET solid == {i \in 1..Len(s) : charAt(s, i) \notin Whitespace}
  IN  IF solid = {} THEN "" ELSE SubSeq(s, Min(solid), Max(solid))

RECURSIVE toLowerCase(_)
toLowerCase(s) ==
  IF s = "" THEN ""
  ELSE LET c == charAt(s, 1)
           k == indexOf(UpperCase, c)
       IN  (IF k = 0 THEN c ELSE charAt(LowerCase, k)) \o toLowerCase(from(s, 2))

RECURSIVE split(_, _)
split(s, sep) ==
  LET k == indexOf(s, sep)
  IN  IF k = 0 THEN <<s>>
      ELSE <<SubSeq(s, 1, k - 1)>> \o split(from(s, k + Len(sep)), sep)

RECURSIVE join(_, _)
join(parts, sep) ==
  IF Len(parts) = 0 THEN ""
  ELSE IF Len(parts) = 1 THEN parts[1]
  ELSE parts[1] \o sep \o join(Tail(parts), sep)

RECURSIVE repeat(_, _)
repeat(s, n) == IF n <= 0 THEN "" ELSE s \o repeat(s, n - 1)

count(s, c) == Cardinality({i \in 1..Len(s) : charAt(s, i) = c})

\* s.replace(/c/g, by) for one character c.
RECURSIVE replaceChar(_, _, _)
replaceChar(s, c, by) ==
  LET k == next(s, {c}, 1)
  IN  IF k > Len(s) THEN s
      ELSE SubSeq(s, 1, k - 1) \o by \o replaceChar(from(s, k + 1), c, by)

(***************************************************************************)
(* JSON.parse.  parseValue and its helpers return the position after the   *)
(* value that starts at i, or 0 for a SyntaxError.  The grammar is JSON's, *)
(* with numbers restricted to integers.                                    *)
(***************************************************************************)
SyntaxError == "SyntaxError"

RECURSIVE parseString(_, _)
\* i is the position after the opening quote.
parseString(s, i) ==
  LET k == next(s, {"\"", "\\", "\n", "\t", "\r"}, i)
  IN  IF k > Len(s) THEN 0
      ELSE IF charAt(s, k) = "\"" THEN k + 1
      ELSE IF charAt(s, k) = "\\" /\ k + 1 <= Len(s) THEN parseString(s, k + 2)
      ELSE 0

parseNumber(s, i) ==
  LET d == IF charAt(s, i) = "-" THEN i + 1 ELSE i
      e == skip(s, Digits, d)
  IN  IF e = d \/ (e > d + 1 /\ charAt(s, d) = "0") THEN 0 ELSE e

parseLiteral(s, i) ==
  IF at(s, "true", i) THEN i + 4
  ELSE IF at(s, "false", i) THEN i + 5
  ELSE IF at(s, "null", i) THEN i + 4
  ELSE 0

RECURSIVE parseValue(_, _)
RECURSIVE parseMembers(_, _)
RECURSIVE parseElements(_, _)

parseValue(s, i) ==
  LET k == skip(s, Whitespace, i)
      c == charAt(s, k)
  IN  IF c = "{" THEN
        (IF charAt(s, skip(s, Whitespace, k + 1)) = "}"
           THEN skip(s, Whitespace, k + 1) + 1
           ELSE parseMembers(s, k + 1))
      ELSE IF c = "[" THEN
        (IF charAt(s, skip(s, Whitespace, k + 1)) = "]"
           THEN skip(s, Whitespace, k + 1) + 1
           ELSE parseElements(s, k + 1))
      ELSE IF c = "\"" THEN parseString(s, k + 1)
      ELSE IF c \in Digits \cup {"-"} THEN parseNumber(s, k)
      ELSE parseLiteral(s, k)

\* The members of an object from i on, up to and including its "}".
parseMembers(s, i) ==
  LET k == skip(s, Whitespace, i)
      e == IF charAt(s, k) = "\"" THEN parseString(s, k + 1) ELSE 0
      c == skip(s, Whitespace, e)
      v == IF e # 0 /\ charAt(s, c) = ":" THEN parseValue(s, c + 1) ELSE 0
      d == skip(s, Whitespace, v)
  IN  IF v = 0 THEN 0
      ELSE IF charAt(s, d) = "," THEN parseMembers(s, d + 1)
      ELSE IF charAt(s, d) = "}" THEN d + 1
      ELSE 0

\* The elements of an array from i on, up to and including its "]".
parseElements(s, i) ==
  LET v == parseValue(s, i)
      d == skip(s, Whitespace, v)
  IN  IF v = 0 THEN 0
      ELSE IF charAt(s, d) = "," THEN parseElements(s, d + 1)
      ELSE IF charAt(s, d) = "]" THEN d + 1
      ELSE 0

parses(s) ==
  LET e == parseValue(s, 1)
  IN  e # 0 /\ skip(s, Whitespace, e) = Len(s) + 1

\* The text of a value without the whitespace between its tokens: two texts
\* without escapes parse to the same structure, member order included,
\* exactly when this form of them is the same.
RECURSIVE compact(_, _)
compact(s, quoted) ==
  LET k == next(s, IF quoted THEN {"\"", "\\"} ELSE Whitespace \cup {"\""}, 1)
      c == charAt(s, k)
  IN  IF k > Len(s) THEN s
      ELSE IF c = "\\" THEN SubSeq(s, 1, k + 1) \o compact(from(s, k + 2), TRUE)
      ELSE IF c = "\"" THEN SubSeq(s, 1, k) \o compact(from(s, k + 1), ~quoted)
      ELSE SubSeq(s, 1, k - 1)
             \o compact(from(s, skip(s, Whitespace, k)), FALSE)

JSONparse(s) == IF parses(s) THEN compact(s, FALSE) ELSE SyntaxError

(***************************************************************************)
(* LLMService._fixJsonFormat (src/ai/llmService.js 252-348)                *)
(***************************************************************************)
\* The mark of a code block, three backquotes.
Backquote == SubSeq("`'", 1, 1)
Fence == Backquote \o Backquote \o Backquote

RECURSIVE stripFence(_, _)
\* 258-259: s.replace(/<fence>\s*/g, '').
stripFence(s, fence) ==
  LET k == indexOf(s, fence)
  IN  IF k = 0 THEN s
      ELSE SubSeq(s, 1, k - 1)
             \o stripFence(from(s, skip(s, Whitespace, k + Len(fence))), fence)

\* 262-267: the text from the first "{" to the last "}".
extractObject(s) ==
  LET jsonStartIndex == indexOf(s, "{")
      jsonEndIndex == lastIndexOf(s, "}")
  IN  IF jsonStartIndex >= 1 /\ jsonEndIndex >= 1 /\ jsonEndIndex > jsonStartIndex
        THEN SubSeq(s, jsonStartIndex, jsonEndIndex)
        ELSE s

RECURSIVE dropTrailingCommas(_)
\* 271: s.replace(/,(\s*[}\]])/g, '$1').
dropTrailingCommas(s) ==
  LET c == next(s, {","}, 1)
      k == skip(s, Whitespace, c + 1)
  IN  IF c > Len(s) THEN s
      ELSE IF charAt(s, k) \in {"}", "]"}
        THEN SubSeq(s, 1, c - 1) \o SubSeq(s, c + 1, k)
               \o dropTrailingCommas(from(s, k + 1))
        ELSE SubSeq(s, 1, c) \o dropTrailingCommas(from(s, c + 1))

RECURSIVE quoteKeys(_)
\* 274-278: s.replace(/(\w+):/g, ...): a run of word characters that a colon
\* follows is put in double quotes; the run itself never holds a quote, so
\* the callback's guard at 276 never returns the match as it is.
quoteKeys(s) ==
  LET c == next(s, {":"}, 1)
      w == back(s, WordChars, c - 1)
  IN  IF c > Len(s) THEN s
      ELSE IF w = c THEN SubSeq(s, 1, c) \o quoteKeys(from(s, c + 1))
      ELSE SubSeq(s, 1, w - 1) \o "\"" \o SubSeq(s, w, c - 1) \o "\":"
             \o quoteKeys(from(s, c + 1))

RECURSIVE separate(_, _, _)
\* 281-289: s.replace(/a\s*b/g, a + ',\n' + b) for two characters a and b.
separate(s, a, b) ==
  LET i == next(s, {a}, 1)
      k == skip(s, Whitespace, i + 1)
  IN  IF i > Len(s) THEN s
      ELSE IF charAt(s, k) = b
        THEN SubSeq(s, 1, i) \o ",\n" \o b \o separate(from(s, k + 1), a, b)
        ELSE SubSeq(s, 1, i) \o separate(from(s, i + 1), a, b)

\* 292-312: a comma is put after line i when it and the next line both hold
\* a colon, or when it ends a value and the next line begins one.
alignLines(lines) ==
  [i \in 1..Len(lines) |->
    IF i = Len(lines) THEN lines[i]
    ELSE LET line == trim(lines[i])
             nextLine == trim(lines[i + 1])
         IN  IF \/ /\ includes(line, ":") /\ includes(nextLine, ":")
                   /\ ~endsWith(line, ",")
                   /\ ~endsWith(line, "{")
                   /\ ~endsWith(line, "[")
                \/ /\ \/ endsWith(line, "}")
                      \/ endsWith(line, "\"")
                      \/ endsWith(line, "'")
                   /\ \/ startsWith(nextLine, "{")
                      \/ startsWith(nextLine, "\"")
                      \/ startsWith(nextLine, "'")
                   /\ ~endsWith(line, ",")
               THEN line \o ","
               ELSE lines[i]]

\* 315-325: closers are appended for the openers that outnumber them.
balance(s) ==
  LET braced == s \o repeat("}", count(s, "{") - count(s, "}"))
  IN  braced \o repeat("]", count(braced, "[") - count(braced, "]"))

\* 336: s.replace(/"steps"\s*:/, '"steps": [') on the first match.
openSteps(s) ==
  LET hits == {i \in 1..Len(s) :
                 /\ at(s, "\"steps\"", i)
                 /\ charAt(s, skip(s, Whitespace, i + 7)) = ":"}
      i == Min(hits)
  IN  IF hits = {} THEN s
      ELSE SubSeq(s, 1, i - 1) \o "\"steps\": ["
             \o from(s, skip(s, Whitespace, i + 7) + 1)

\* 338: s.replace(/}\s*$/, ']}').
closeSteps(s) ==
  LET hits == {i \in 1..Len(s) :
                 charAt(s, i) = "}" /\ skip(s, Whitespace, i + 1) = Len(s) + 1}
  IN  IF hits = {} THEN s
      ELSE SubSeq(s, 1, Min(hits) - 1) \o "]}"

\* 328-341: what is done with the rewritten text when JSON.parse rejects it.
lastAttempt(s) ==
  IF /\ includes(s, "\"steps\"")
     /\ ~includes(s, "\"steps\": [")
     /\ ~includes(s, "\"steps\":[]")
    THEN LET opened == openSteps(s)
         IN  IF ~includes(opened, "\"steps\": []") /\ ~includes(opened, "]}")
               THEN closeSteps(opened)
               ELSE opened
    ELSE s

\* 252-348 for a string content: no statement of the outer try throws on a
\* string, so the catch at 344-347, the one place that returns content as
\* it came, is not taken.
rewritten(content) ==
  LET unfenced == stripFence(stripFence(content, Fence \o "json"), Fence)
      straight == replaceChar(extractObject(unfenced), "'", "\"")
      keyed == quoteKeys(dropTrailingCommas(straight))
      objects == separate(keyed, "}", "{")
      values == separate(separate(objects, "}", "\""), "\"", "{")
      again == separate(separate(values, "}", "{"), "}", "{")
  IN  balance(join(alignLines(split(again, "\n")), "\n"))

_fixJsonFormat(content) ==
  LET jsonContent == rewritten(content)
  IN  IF parses(jsonContent) THEN jsonContent ELSE lastAttempt(jsonContent)

(***************************************************************************)
(* LLMService.generateResponse (src/ai/llmService.js 87-196)               *)
(***************************************************************************)
GenCalls == 1..MaxGenCalls

\* The example of a valid plan the service puts in its system prompt
\* (215-227), which is the shape of text the model is asked to answer with.
ExamplePlan ==
  "{\n  \"steps\": [\n    {\n      \"tool\": \"discord.request\",\n"
  \o "      \"params\": {\n        \"action\": \"message.create\",\n"
  \o "        \"content\": \"Hello world\"\n      },\n      \"id\": \"s1\"\n"
  \o "    }\n  ],\n  \"meta\": {\"strategy\": \"sequential\"}\n}"

\* What one request to the chat completions endpoint comes back with: fetch
\* rejects (network error or timeout), the status is not ok, the body is not
\* JSON, the body holds no message content, or it holds a content.
Failures == {"network", "status", "body", "empty"}
Contents == {ExamplePlan, "{steps: [],}"}
Replies == [kind : Failures] \cup [kind : {"content"}, content : Contents]

\* User prompts of the invocations.
GenPrompts == {"send hello 3 times", "ban <@1>"}

NoResult == [kind |-> "none"]

GenerateInit ==
  /\ retryDelay = RetryDelay
  /\ gpc = [c \in GenCalls |-> "idle"]
  /\ prompts = [c \in GenCalls |-> ""]
  /\ attemptCount = [c \in GenCalls |-> 0]
  /\ backendCalls = [c \in GenCalls |-> 0]
  /\ replies = [c \in GenCalls |-> <<>>]
  /\ delays = [c \in GenCalls |-> <<>>]
  /\ generated = [c \in GenCalls |-> NoResult]

MoreAttemptsInclusive(n) == n <= RetryAttempts

\* 103: the loop's condition.
MoreAttempts(n) == n < RetryAttempts

BackoffHalved(delay) == delay \div 2

\* 173: this.retryDelay *= 2.
Backoff(delay) == delay * 2

\* 152-153: finalContent for each content the backend may answer with.
FinalContent == [content \in Contents |-> _fixJsonFormat(content)]

\* 115-163: an attempt succeeds when the reply carries a content; the value
\* returned is the content after _fixJsonFormat (fixJsonInResponse is true).
Returned(reply) ==
  [kind |-> "content", content |-> reply.content,
   finalContent |-> FinalContent[reply.content]]

\* 178-195, the statements after the loop.  response and content are const
\* bindings of the try block (115, 141); where 183 evaluates response.status
\* no binding of that name is in scope, the evaluation throws a
\* ReferenceError, and the fallback at 190-193 and the throw at 195 are not
\* reached.
AfterLoop(prompt) == [kind |-> "error", name |-> "ReferenceError"]

\* 87-129: generateResponse is called; it runs up to its first await, the
\* first request of the loop.
generateResponse(c, prompt) ==
  /\ gpc[c] = "idle"
  /\ prompts' = [prompts EXCEPT ![c] = prompt]
  /\ IF MoreAttempts(attemptCount[c])
       THEN /\ gpc' = [gpc EXCEPT ![c] = "fetch"]
            /\ backendCalls' = [backendCalls EXCEPT ![c] = @ + 1]
            /\ UNCHANGED generated
       ELSE /\ gpc' = [gpc EXCEPT ![c] = "done"]
            /\ generated' = [generated EXCEPT ![c] = AfterLoop(prompt)]
            /\ UNCHANGED backendCalls
  /\ UNCHANGED <<retryDelay, attemptCount, replies, delays>>
  /\ UNCHANGED exceptGenerate

\* 131-163: the request is answered with a content, which is returned.
Succeed(c, reply) ==
  /\ gpc[c] = "fetch"
  /\ reply.kind = "content"
  /\ replies' = [replies EXCEPT ![c] = Append(@, "ok")]
  /\ gpc' = [gpc EXCEPT ![c] = "done"]
  /\ generated' = [generated EXCEPT ![c] = Returned(reply)]
  /\ UNCHANGED <<retryDelay, prompts, attemptCount, backendCalls, delays>>
  /\ UNCHANGED exceptGenerate

\* 132-135, 145-147, 165-172: the attempt fails and another one is left; the
\* timer of the wait is set with the instance's retryDelay as it is now.
FailAndWait(c, reply) ==
  /\ gpc[c] = "fetch"
  /\ reply.kind \in Failures
  /\ MoreAttempts(attemptCount[c] + 1)
  /\ replies' = [replies EXCEPT ![c] = Append(@, "failed")]
  /\ attemptCount' = [attemptCount EXCEPT ![c] = @ + 1]
  /\ delays' = [delays EXCEPT ![c] = Append(@, retryDelay)]
  /\ gpc' = [gpc EXCEPT ![c] = "wait"]
  /\ UNCHANGED <<retryDelay, prompts, backendCalls, generated>>
  /\ UNCHANGED exceptGenerate

\* 165-171, 178-195: the last attempt fails and the loop is left.
FailAndGiveUp(c, reply) ==
  /\ gpc[c] = "fetch"
  /\ reply.kind \in Failures
  /\ ~MoreAttempts(attemptCount[c] + 1)
  /\ replies' = [replies EXCEPT ![c] = Append(@, "failed")]
  /\ attemptCount' = [attemptCount EXCEPT ![c] = @ + 1]
  /\ gpc' = [gpc EXCEPT ![c] = "done"]
  /\ generated' = [generated EXCEPT ![c] = AfterLoop(prompts[c])]
  /\ UNCHANGED <<retryDelay, prompts, backendCalls, delays>>
  /\ UNCHANGED exceptGenerate

\* 172-173, 103-129: the timer fires; the instance's retryDelay is doubled
\* and the next request is sent.
Retry(c) ==
  /\ gpc[c] = "wait"
  /\ retryDelay' = Backoff(retryDelay)
  /\ gpc' = [gpc EXCEPT ![c] = "fetch"]
  /\ backendCalls' = [backendCalls EXCEPT ![c] = @ + 1]
  /\ UNCHANGED <<prompts, attemptCount, replies, delays, generated>>
  /\ UNCHANGED exceptGenerate

Generate(c) ==
  \/ \E prompt \in GenPrompts : generateResponse(c, prompt)
  \/ \E reply \in Replies :
       \/ Succeed(c, reply)
       \/ FailAndWait(c, reply)
       \/ FailAndGiveUp(c, reply)
  \/ Retry(c)

GenerateNext == \E c \in GenCalls : Generate(c)

(***************************************************************************)
(* Backend texts for _fixJsonFormat: plan texts, each with one defect.     *)
(***************************************************************************)
\* The text of a plan of n message steps as JSON.stringify writes it.
StepText(i) ==
  "{\"tool\":\"discord.request\",\"params\":{\"action\":\"message.create\","
  \o "\"content\":\"hello\"},\"id\":\"s" \o charAt("123456789", i) \o "\"}"

PlanText(n) ==
  "{\"steps\":[" \o join([i \in 1..n |-> StepText(i)], ",")
  \o "],\"meta\":{\"strategy\":\"sequential\"}}"

PlanTexts == {ExamplePlan} \cup {PlanText(n) : n \in 1..MaxTextSteps}

\* The text with the characters from position i to j replaced.
Splice(t, i, j, by) == SubSeq(t, 1, i - 1) \o by \o from(t, j + 1)

\* The position of the last character before i that is not whitespace.
RECURSIVE before(_, _)
before(t, i) ==
  IF i > 1 /\ charAt(t, i - 1) \in Whitespace THEN before(t, i - 1) ELSE i - 1

\* A comma after the last member of an object or element of an array.
TrailingComma(t) ==
  {Splice(t, i, i - 1, ",") :
     i \in {k \in 1..Len(t) :
              /\ charAt(t, k) \in {"}", "]"}
              /\ charAt(t, before(t, k)) \notin {"{", "["}}}

\* A key without its quotes.
UnquotedKey(t) ==
  {Splice(t, i, skip(t, WordChars, i + 1), SubSeq(t, i + 1, skip(t, WordChars, i + 1) - 1)) :
     i \in {k \in 1..Len(t) :
              /\ charAt(t, k) = "\""
              /\ skip(t, WordChars, k + 1) > k + 1
              /\ charAt(t, skip(t, WordChars, k + 1)) = "\""
              /\ charAt(t, skip(t, Whitespace, skip(t, WordChars, k + 1) + 1)) = ":"}}

\* Strings in single quotes.
SingleQuoted(t) == {replaceChar(t, "\"", "'")}

\* No comma between two sibling objects.
MissingComma(t) ==
  {Splice(t, i, i, "") :
     i \in {k \in 1..Len(t) :
              /\ charAt(t, k) = ","
              /\ charAt(t, before(t, k)) = "}"
              /\ charAt(t, skip(t, Whitespace, k + 1)) = "{"}}

\* An object without its closing brace.
MissingBrace(t) ==
  {Splice(t, i, i, "") : i \in {k \in 1..Len(t) : charAt(t, k) = "}"}}

Defective(defect, t) ==
  CASE defect = "trailing comma" -> TrailingComma(t)
    [] defect = "unquoted key" -> UnquotedKey(t)
    [] defect = "single quotes" -> SingleQuoted(t)
    [] defect = "missing comma" -> MissingComma(t)
    [] defect = "missing brace" -> MissingBrace(t)

Defects ==
  {"trailing comma", "unquoted key", "single quotes", "missing comma",
   "missing brace"}

\* The text of a plan of one message step with the content, as JSON.stringify
\* writes it.
SayText(content) ==
  "{\"steps\":[{\"tool\":\"discord.request\",\"params\":{\"action\":"
  \o "\"message.create\",\"content\":\"" \o content \o "\"},\"id\":\"s1\"}]}"

\* Texts that need no repair: the plan texts, and plans whose message content
\* has an apostrophe or a word followed by a colon.
ValidTexts ==
  PlanTexts \cup {SayText("hello"), SayText("don't spam"), SayText("note: be kind")}

Payloads ==
  UNION {{[defect |-> d, intended |-> t, text |-> x] : x \in Defective(d, t)} :
           d \in Defects, t \in PlanTexts}
  \cup {[defect |-> "valid", intended |-> t, text |-> t] : t \in ValidTexts}

\* No text is under repair and none under synthesis.
NoPayload == [defect |-> "none", intended |-> "", text |-> ""]
NotRun == [done |-> FALSE]

TextIdle ==
  /\ payload = NoPayload
  /\ fixed = NotRun
  /\ userText = ""
  /\ fallback = NotRun

\* A text comes from the backend.
RepairInit ==
  /\ payload \in Payloads
  /\ fixed = NotRun
  /\ userText = ""
  /\ fallback = NotRun

\* 152-153: _fixJsonFormat is applied to it.
FixJsonFormat ==
  /\ payload # NoPayload
  /\ fixed = NotRun
  /\ fixed' = [done |-> TRUE, text |-> _fixJsonFormat(payload.text)]
  /\ UNCHANGED <<payload, userText, fallback>>
  /\ UNCHANGED exceptText

RepairNext == FixJsonFormat

(***************************************************************************)
(* LLMService._generateFallbackResponse and the command processors it      *)
(* hands the user text to (src/ai/llmService.js 356-904).  A plan is the   *)
(* object a processor passes to JSON.stringify; a requiresApproval key     *)
(* that the object does not carry reads as FALSE.  User texts are ASCII,   *)
(* so the keywords and patterns with other letters never match and are     *)
(* left out, and of a confirmation message only the action is kept.        *)
(***************************************************************************)
RECURSIVE parseInt(_)
parseInt(digits) ==
  IF digits = "" THEN 0
  ELSE 10 * parseInt(SubSeq(digits, 1, Len(digits) - 1))
         + (indexOf("0123456789", charAt(digits, Len(digits))) - 1)

RECURSIVE String(_)
String(n) ==
  IF n < 10 THEN charAt("0123456789", n + 1)
  ELSE String(n \div 10) \o charAt("0123456789", (n % 10) + 1)

\* The text captured by the first match, or NoMatch.
NoMatch == [found |-> FALSE, text |-> ""]
Match(t) == [found |-> TRUE, text |-> t]

\* /["']([^"']+)["']/
quoted(s) ==
  LET quote == {"\"", "'"}
      hits == {i \in 1..Len(s) :
                 /\ charAt(s, i) \in quote
                 /\ next(s, quote, i + 1) \in (i + 2)..Len(s)}
      i == Min(hits)
  IN  IF hits = {} THEN NoMatch
      ELSE Match(SubSeq(s, i + 1, next(s, quote, i + 1) - 1))

\* /<@!?(\d+)>/ for sigil "@" and optional "!", /<@&(\d+)>/ and /<#(\d+)>/
\* for the sigils "@&" and "#".
mention(s, sigil, optional) ==
  LET open(i) == IF optional # "" /\ at(s, optional, i + Len(sigil) + 1)
                   THEN i + Len(sigil) + 1 + Len(optional)
                   ELSE i + Len(sigil) + 1
      hits == {i \in 1..Len(s) :
                 /\ at(s, "<" \o sigil, i)
                 /\ skip(s, Digits, open(i)) > open(i)
                 /\ charAt(s, skip(s, Digits, open(i))) = ">"}
      i == Min(hits)
  IN  IF hits = {} THEN NoMatch
      ELSE Match(SubSeq(s, open(i), skip(s, Digits, open(i)) - 1))

\* /(\d+)\s*(?:w1|w2|...)/i
numberBefore(s, words) ==
  LET lower == toLowerCase(s)
      hits == {i \in 1..Len(s) :
                 /\ charAt(s, i) \in Digits
                 /\ \E w \in words :
                      at(lower, w, skip(s, Whitespace, skip(s, Digits, i)))}
      i == Min(hits)
  IN  IF hits = {} THEN NoMatch
      ELSE Match(SubSeq(s, i, skip(s, Digits, i) - 1))

\* /word[: ]+"([^"]+)"/i
quotedAfter(s, word) ==
  LET lower == toLowerCase(s)
      open(i) == skip(s, {":", " "}, i + Len(word))
      close(i) == next(s, {"\""}, open(i) + 1)
      hits == {i \in 1..Len(s) :
                 /\ at(lower, word, i)
                 /\ open(i) > i + Len(word)
                 /\ charAt(s, open(i)) = "\""
                 /\ close(i) \in (open(i) + 2)..Len(s)}
      i == Min(hits)
  IN  IF hits = {} THEN NoMatch
      ELSE Match(SubSeq(s, open(i) + 1, close(i) - 1))

\* /word[: ]+(\d+)/i
numberAfter(s, word) ==
  LET lower == toLowerCase(s)
      open(i) == skip(s, {":", " "}, i + Len(word))
      hits == {i \in 1..Len(s) :
                 /\ at(lower, word, i)
                 /\ open(i) > i + Len(word)
                 /\ charAt(s, open(i)) \in Digits}
      i == Min(hits)
  IN  IF hits = {} THEN NoMatch
      ELSE Match(SubSeq(s, open(i), skip(s, Digits, open(i)) - 1))

\* /\b(w1|w2|...)\b/i matches.
hasWord(s, words) ==
  LET lower == toLowerCase(s)
  IN  \E w \in words : \E i \in 1..Len(s) :
        /\ at(lower, w, i)
        /\ charAt(s, i - 1) \notin WordChars
        /\ charAt(s, i + Len(w)) \notin WordChars

\* /to\s+(\S+)/i
afterTo(s) ==
  LET lower == toLowerCase(s)
      open(i) == skip(s, Whitespace, i + 2)
      hits == {i \in 1..Len(s) :
                 /\ at(lower, "to", i)
                 /\ open(i) > i + 2
                 /\ open(i) <= Len(s)}
      i == Min(hits)
  IN  IF hits = {} THEN NoMatch
      ELSE Match(SubSeq(s, open(i), next(s, Whitespace, open(i)) - 1))

Step(id, params) == [tool |-> "discord.request", params |-> params, id |-> id]

Plan(steps, approval) ==
  [steps |-> steps, meta |-> [strategy |-> "sequential"],
   requiresApproval |-> approval]

Report == [action |-> "message.create"]

userIdOf(s) ==
  IF mention(s, "@", "!").found THEN mention(s, "@", "!").text
  ELSE "USER_ID_REQUIRED"

\* 429-468
_processNicknameCommand(userPrompt) ==
  LET nickname == IF quoted(userPrompt).found THEN quoted(userPrompt).text
                  ELSE IF afterTo(userPrompt).found THEN afterTo(userPrompt).text
                  ELSE "New Nickname"
  IN  Plan(<<Step("s1", [action |-> "member.setNickname",
                          userId |-> userIdOf(userPrompt),
                          nickname |-> nickname,
                          reason |-> "Changed via bot command"]),
             Step("s2", Report)>>, FALSE)

\* 476-507
_processRepeatCommand(userPrompt) ==
  LET text == IF quoted(userPrompt).found THEN quoted(userPrompt).text
                 ELSE "Repeat message"
      countMatch == numberBefore(userPrompt, {"times", "kez"})
      howMany == IF countMatch.found THEN Min({parseInt(countMatch.text), 10}) ELSE 3
      shouldNumber == \/ includes(toLowerCase(userPrompt), "number")
                      \/ includes(toLowerCase(userPrompt), "numara")
  IN  Plan([i \in 1..howMany |->
              Step("s" \o String(i),
                   [action |-> "message.create",
                    content |-> IF shouldNumber
                                  THEN String(i) \o ". " \o text
                                  ELSE text])], FALSE)

\* 515-567
_processWriteCommand(userPrompt) ==
  LET content == IF quoted(userPrompt).found THEN quoted(userPrompt).text
                 ELSE "Merhaba!"
      repeatMatch == numberBefore(userPrompt, {"times", "kez", "defa"})
      times == IF repeatMatch.found THEN Min({parseInt(repeatMatch.text), 5}) ELSE 1
      who == IF mention(userPrompt, "@", "!").found
               THEN "<@" \o mention(userPrompt, "@", "!").text \o "> "
               ELSE ""
      shouldNumber == \/ includes(toLowerCase(userPrompt), "number")
                      \/ includes(toLowerCase(userPrompt), "numara")
      isIncrementing == includes(toLowerCase(userPrompt), "increment")
  IN  Plan([i \in 1..times |->
              Step("s" \o String(i),
                   [action |-> "message.create",
                    content |-> IF isIncrementing
                                  THEN who \o content \o " " \o String(i)
                                ELSE IF shouldNumber
                                  THEN String(i) \o ". " \o who \o content
                                ELSE who \o content])], FALSE)

\* 575-619
_processTimeoutCommand(userPrompt) ==
  LET minuteMatch == numberBefore(userPrompt, {"minute", "dakika", "min", "dk"})
      hourMatch == numberBefore(userPrompt, {"hour", "saat", "h"})
      dayMatch == numberBefore(userPrompt, {"day", "d"})
      duration == IF dayMatch.found THEN parseInt(dayMatch.text) * 86400
                  ELSE IF hourMatch.found THEN parseInt(hourMatch.text) * 3600
                  ELSE IF minuteMatch.found THEN parseInt(minuteMatch.text) * 60
                  ELSE 300
      reason == IF quotedAfter(userPrompt, "reason").found
                  THEN quotedAfter(userPrompt, "reason").text
                  ELSE "Requested through bot command"
  IN  Plan(<<Step("s1", [action |-> "member.timeout",
                          userId |-> userIdOf(userPrompt),
                          duration |-> duration,
                          reason |-> reason]),
             Step("s2", Report)>>, FALSE)

\* 627-662
_processPurgeCommand(userPrompt) ==
  LET countMatch == numberBefore(userPrompt, {"message", "mesaj", "msg"})
      limit == IF countMatch.found THEN Min({parseInt(countMatch.text), 100}) ELSE 10
      user == mention(userPrompt, "@", "!")
  IN  Plan(<<Step("s1", IF user.found
                          THEN [action |-> "channel.purge", limit |-> limit,
                                userId |-> user.text]
                          ELSE [action |-> "channel.purge", limit |-> limit]),
             Step("s2", Report)>>, FALSE)

\* 670-709
_processBanCommand(userPrompt) ==
  LET reason == IF quotedAfter(userPrompt, "reason").found
                  THEN quotedAfter(userPrompt, "reason").text
                  ELSE "Banned through bot command"
      daysMatch == numberAfter(userPrompt, "delete")
      deleteMessageDays == IF daysMatch.found
                             THEN Min({parseInt(daysMatch.text), 7})
                             ELSE 0
  IN  Plan(<<Step("s1", [action |-> "member.ban",
                          userId |-> userIdOf(userPrompt),
                          reason |-> reason,
                          deleteMessageDays |-> deleteMessageDays]),
             Step("s2", Report)>>, TRUE)

_processKickCommandUnapproved(userPrompt) ==
  Plan(<<Step("s1", [action |-> "member.kick",
                      userId |-> userIdOf(userPrompt),
                      reason |-> "Kicked through bot command"]),
         Step("s2", Report)>>, FALSE)

\* 717-750
_processKickCommand(userPrompt) ==
  LET reason == IF quotedAfter(userPrompt, "reason").found
                  THEN quotedAfter(userPrompt, "reason").text
                  ELSE "Kicked through bot command"
  IN  Plan(<<Step("s1", [action |-> "member.kick",
                          userId |-> userIdOf(userPrompt),
                          reason |-> reason]),
             Step("s2", Report)>>, TRUE)

\* 758-806
_processRoleCommand(userPrompt) ==
  LET isAdd == hasWord(userPrompt, {"add", "ver", "ekle"})
      action == IF isAdd THEN "role.add" ELSE "role.remove"
      roleIdMatch == mention(userPrompt, "@&", "")
      roleName == IF quotedAfter(userPrompt, "role").found
                    THEN quotedAfter(userPrompt, "role").text
                    ELSE "RoleName"
  IN  Plan(<<Step("s1", IF roleIdMatch.found
                          THEN [action |-> action,
                                userId |-> userIdOf(userPrompt),
                                roleId |-> roleIdMatch.text]
                          ELSE [action |-> action,
                                userId |-> userIdOf(userPrompt),
                                roleName |-> roleName]),
             Step("s2", Report)>>, FALSE)

\* 812-904
_processChannelCommand(userPrompt) ==
  LET isCreate == hasWord(userPrompt, {"create", "add", "ekle"})
      isDelete == hasWord(userPrompt, {"delete", "sil", "remove"})
      isPurge == hasWord(userPrompt, {"purge", "temizle", "clear"})
      channelName == IF quotedAfter(userPrompt, "name").found
                       THEN quotedAfter(userPrompt, "name").text
                       ELSE "new-channel"
      channelType == IF hasWord(userPrompt, {"voice", "ses"})
                       THEN "GUILD_VOICE" ELSE "GUILD_TEXT"
      channelId == IF mention(userPrompt, "#", "").found
                     THEN mention(userPrompt, "#", "").text
                     ELSE "null"
  IN  IF isPurge THEN _processPurgeCommand(userPrompt)
      ELSE IF isCreate THEN
        Plan(<<Step("s1", [action |-> "channel.create", name |-> channelName,
                            type |-> channelType]),
               Step("s2", Report)>>, FALSE)
      ELSE IF isDelete THEN
        Plan(<<Step("s1", [action |-> "channel.delete", channelId |-> channelId]),
               Step("s2", Report)>>, TRUE)
      ELSE Plan(<<Step("s1", Report)>>, FALSE)

\* Faulty variant: the kick keywords are tested before the ban keywords.
_generateFallbackResponseKickFirst(userPrompt) ==
  LET lowerPrompt == toLowerCase(userPrompt)
      has(words) == \E w \in words : includes(lowerPrompt, w)
  IN  IF has({"write", "send", "yaz"}) THEN _processWriteCommand(userPrompt)
      ELSE IF has({"timeout", "mute", "sustur"})
        THEN _processTimeoutCommand(userPrompt)
      ELSE IF has({"purge", "clear", "delete", "sil", "temizle"})
        THEN _processPurgeCommand(userPrompt)
      ELSE IF has({"kick", "at"}) THEN _processKickCommand(userPrompt)
      ELSE IF has({"ban", "yasak"}) THEN _processBanCommand(userPrompt)
      ELSE IF has({"role", "rol"}) THEN _processRoleCommand(userPrompt)
      ELSE IF has({"channel", "kanal"}) THEN _processChannelCommand(userPrompt)
      ELSE IF has({"nickname", "nick", "isim"})
        THEN _processNicknameCommand(userPrompt)
      ELSE IF has({"repeat", "tekrarla"}) THEN _processRepeatCommand(userPrompt)
      ELSE Plan(<<Step("s1", Report)>>, FALSE)

\* 356-421
_generateFallbackResponse(userPrompt) ==
  LET lowerPrompt == toLowerCase(userPrompt)
      has(words) == \E w \in words : includes(lowerPrompt, w)
  IN  IF has({"write", "send", "yaz"}) THEN _processWriteCommand(userPrompt)
      ELSE IF has({"timeout", "mute", "sustur"})
        THEN _processTimeoutCommand(userPrompt)
      ELSE IF has({"purge", "clear", "delete", "sil", "temizle"})
        THEN _processPurgeCommand(userPrompt)
      ELSE IF has({"ban", "yasak"}) THEN _processBanCommand(userPrompt)
      ELSE IF has({"kick", "at"}) THEN _processKickCommand(userPrompt)
      ELSE IF has({"role", "rol"}) THEN _processRoleCommand(userPrompt)
      ELSE IF has({"channel", "kanal"}) THEN _processChannelCommand(userPrompt)
      ELSE IF has({"nickname", "nick", "isim"})
        THEN _processNicknameCommand(userPrompt)
      ELSE IF has({"repeat", "tekrarla"}) THEN _processRepeatCommand(userPrompt)
      ELSE Plan(<<Step("s1", Report)>>, FALSE)

(***************************************************************************)
(* User texts for the fallback synthesizer.                                *)
(***************************************************************************)
Verbs ==
  {"send", "Write", "ban", "kick", "mute", "purge", "role add", "channel create",
   "nick", "repeat", "hi",
   "send a ban", "mute and purge", "kick and ban", "role in channel",
   "kanal isim", "isim tekrarla", "tekrarla", "add channel"}
Objects == {" hello", " 'hello'", " <@42>"}
Tails ==
  {"", " reason: \"spam\""}
    \cup {" " \o String(n) \o " times" : n \in 1..MaxTimes}
Prompts == {v \o o \o t : v \in Verbs, o \in Objects, t \in Tails}

\* A user text reaches the synthesizer.
FallbackInit ==
  /\ payload = NoPayload
  /\ fixed = NotRun
  /\ userText \in Prompts
  /\ fallback = NotRun

\* 192: _generateFallbackResponse is applied to it.
GenerateFallback ==
  /\ userText # ""
  /\ fallback = NotRun
  /\ fallback' = [done |-> TRUE, plan |-> _generateFallbackResponse(userText)]
  /\ UNCHANGED <<payload, fixed, userText>>
  /\ UNCHANGED exceptText

FallbackNext == GenerateFallback

(***************************************************************************)
(* DynamicHandler (src/core/dynamicHandler.js): executeAction, the         *)
(* resolver bot.js hands every discord.request step of an approved plan    *)
(* to (src/core/bot.js 176).  A missing or empty action is the empty text. *)
(***************************************************************************)

\* 20-46: Object.keys(this.actionMappings), in insertion order.
actionMappings ==
  <<"message.create", "message.edit", "message.delete", "message.react",
    "message.pin", "message.unpin",
    "channel.create", "channel.delete", "channel.purge", "channel.lock",
    "channel.unlock",
    "member.timeout", "member.kick", "member.ban", "member.unban",
    "member.setNickname",
    "role.add", "role.remove">>

Canonical == {actionMappings[i] : i \in 1..Len(actionMappings)}

\* 49-77
actionAliases ==
  ("member.edit" :> "member.setNickname") @@
  ("member.update" :> "member.setNickname") @@
  ("member.nickname" :> "member.setNickname") @@
  ("member.nick" :> "member.setNickname") @@
  ("member.rename" :> "member.setNickname") @@
  ("member.changenick" :> "member.setNickname") @@
  ("member.modifyNickname" :> "member.setNickname") @@
  ("member.mute" :> "member.timeout") @@
  ("member.silence" :> "member.timeout") @@
  ("message.send" :> "message.create") @@
  ("message.write" :> "message.create") @@
  ("message.post" :> "message.create") @@
  ("channel.clean" :> "channel.purge") @@
  ("channel.clear" :> "channel.purge") @@
  ("message.purge" :> "channel.purge") @@
  ("message.clear" :> "channel.purge") @@
  ("role.give" :> "role.add") @@
  ("role.assign" :> "role.add") @@
  ("role.revoke" :> "role.remove") @@
  ("role.take" :> "role.remove")

\* Both tables are object literals: a key they do not hold reads from
\* Object.prototype.  toString is such a key, and its value is callable.
Inherited == {"toString"}

\* table[key] of a handler table: what the key is bound to.
Undefined == [kind |-> "undefined", key |-> ""]
Capability(key) == [kind |-> "capability", key |-> key]
mapped(key) ==
  IF key \in Canonical THEN Capability(key)
  ELSE IF key \in Inherited THEN [kind |-> "inherited", key |-> key]
  ELSE Undefined

\* this.actionAliases[key]
aliased(key) ==
  IF key \in DOMAIN actionAliases THEN Capability(actionAliases[key])
  ELSE IF key \in Inherited THEN [kind |-> "inherited", key |-> key]
  ELSE Undefined

\* The characters "." of a regular expression does not match.
LineEnds == {"\n", "\r"}

\* The positions after the words, matched in turn from position i with \s+
\* between them; each word is a choice of alternatives.
RECURSIVE phrase(_, _, _)
phrase(s, i, words) ==
  UNION {IF ~at(s, w, i) THEN {}
         ELSE IF Len(words) = 1 THEN {i + Len(w)}
         ELSE IF skip(s, Whitespace, i + Len(w)) = i + Len(w) THEN {}
         ELSE phrase(s, skip(s, Whitespace, i + Len(w)), Tail(words))
           : w \in Head(words)}

\* One of the words occurs from position i on, on the same line.
later(s, i, words) ==
  \E k \in i..Len(s) :
    /\ \E w \in words : at(s, w, k)
    /\ \A m \in i..(k - 1) : charAt(s, m) \notin LineEnds

HowMany == {"how many", "what number of"}

\* 86: /(.*?)\s+name\s+has\s+(?:how many|what number of)\s+letters.*?(?:timeout|mute)/i
countAndTimeout(s) ==
  LET lower == toLowerCase(s)
  IN  \E k \in 2..Len(s) :
        /\ charAt(s, k - 1) \in Whitespace
        /\ \E e \in phrase(lower, k, <<{"name"}, {"has"}, HowMany, {"letters"}>>) :
             later(lower, e, {"timeout", "mute"})

\* 91, 797, 918: /(.+)\s+(?:repeat|say)\s+(\d+)(?:\s+times?)?/i
repeatMessage(s) ==
  LET lower == toLowerCase(s)
  IN  \E k \in 3..Len(s) :
        /\ \E p \in 1..(k - 2) :
             /\ charAt(s, p) \notin LineEnds
             /\ \A m \in (p + 1)..(k - 1) : charAt(s, m) \in Whitespace
        /\ \E e \in phrase(lower, k, <<{"repeat", "say"}>>) :
             /\ skip(s, Whitespace, e) > e
             /\ charAt(s, skip(s, Whitespace, e)) \in Digits

\* 791-792: /name\s+(?:has|contains)\s+(?:how many|what number of)\s+letters/i
\* and /(?:timeout|mute)/i
countLetters(s) ==
  LET lower == toLowerCase(s)
  IN  /\ \E k \in 1..Len(s) :
           phrase(lower, k, <<{"name"}, {"has", "contains"}, HowMany, {"letters"}>>) # {}
      /\ \E k \in 1..Len(s) : at(lower, "timeout", k) \/ at(lower, "mute", k)

\* 806: /(?:message|messages).*?(?:filter).*?(?:edit|replace)/i
filterMessages(s) ==
  LET lower == toLowerCase(s)
  IN  \E i \in 1..Len(s) : \E j \in (i + 7)..Len(s) :
        /\ at(lower, "message", i)
        /\ at(lower, "filter", j)
        /\ \A m \in (i + 7)..(j - 1) : charAt(s, m) \notin LineEnds
        /\ later(lower, j + 6, {"edit", "replace"})

\* 273-283: row i of the matrix, filled from column 1 on; cells holds the
\* columns filled so far and prev is row i - 1 (column c at index c + 1).
fillRow[a \in STRING, b \in STRING, i \in Nat, prev \in Seq(Nat), cells \in Seq(Nat)] ==
  LET j == Len(cells)
  IN  IF j > Len(a) THEN cells
      ELSE fillRow[a, b, i, prev,
             Append(cells,
               IF charAt(b, i) = charAt(a, j) THEN prev[j]
               ELSE Min({prev[j] + 1, cells[j] + 1, prev[j + 1] + 1}))]

\* 273-283: the rows of the matrix from row i on, given row i - 1; the value
\* is the last row.
fillMatrix[a \in STRING, b \in STRING, i \in Nat, prev \in Seq(Nat)] ==
  IF i > Len(b) THEN prev
  ELSE fillMatrix[a, b, i + 1, fillRow[a, b, i, prev, <<i>>]]

\* 256-286
_levenshteinDistance(a, b) ==
  IF Len(a) = 0 THEN Len(b)
  ELSE IF Len(b) = 0 THEN Len(a)
  ELSE fillMatrix[a, b, 1, [c \in 1..(Len(a) + 1) |-> c - 1]][Len(a) + 1]

\* 244-248: the score is the fraction num / den.  The quotient of two small
\* integers is rounded the same way wherever it is computed, so fractions
\* compare as the program's numbers do.
Fraction(num, den) == [num |-> num, den |-> den]
Fractions == [num : Nat, den : Nat]
_calculateSimilarity(str1, str2) ==
  LET maxLength == IF Len(str1) >= Len(str2) THEN Len(str1) ELSE Len(str2)
  IN  IF maxLength = 0 THEN Fraction(1, 1)
      ELSE Fraction(maxLength - _levenshteinDistance(str1, str2), maxLength)

greater(x, y) == x.num * y.den > y.num * x.den

\* A threshold only a nearly exact match clears.
SIMILARITY_THRESHOLD_Strict == Fraction(9, 10)
\* 186: SIMILARITY_THRESHOLD = 0.6
SIMILARITY_THRESHOLD == Fraction(6, 10)

\* null
Null == ""

\* 192-206, 222-228: bestMatch and bestScore after the loop over the
\* candidates.  A later candidate replaces the best so far only with a
\* greater score, and bestScore starts at 0: the loop ends with the first
\* candidate of the greatest score, or with null when every score is 0.
first[candidates \in Seq(STRING), score \in Seq(Fractions)] ==
  LET greatest == {i \in 1..Len(candidates) :
                     /\ score[i].num > 0
                     /\ \A k \in 1..Len(candidates) : ~greater(score[k], score[i])}
  IN  IF greatest = {} THEN [match |-> Null, score |-> Fraction(0, 1)]
      ELSE [match |-> candidates[Min(greatest)], score |-> score[Min(greatest)]]

best(invalid, candidates) ==
  first[candidates,
        [i \in 1..Len(candidates) |->
           _calculateSimilarity(invalid, toLowerCase(candidates[i]))]]

\* 181-236
_findSimilarAction(invalidAction) ==
  LET normalizedInvalid == toLowerCase(invalidAction)
      validActions == actionMappings
      category == split(normalizedInvalid, ".")[1]
      inCategory(action) == startsWith(action, category \o ".")
      sameCategory == SelectSeq(validActions, inCategory)
      within == best(normalizedInvalid, sameCategory)
      overall == best(normalizedInvalid, validActions)
  IN  IF includes(normalizedInvalid, ".") /\ Len(sameCategory) > 0
        THEN IF ~greater(SIMILARITY_THRESHOLD, within.score)
               THEN within.match
               ELSE sameCategory[1]
      ELSE IF ~greater(SIMILARITY_THRESHOLD, overall.score)
        THEN overall.match
      ELSE Null

\* What executeAction returns, and the path that produced it.
Result(success, via, actionUsed, error) ==
  [success |-> success, via |-> via, actionUsed |-> actionUsed, error |-> error]

\* A call of executeAction: its result, the handlers of actionMappings it
\* called (each with the action of the params it was given), and the
\* dynamic extensions it counted.
Execution(result, calls, extensions) ==
  [result |-> result, calls |-> calls, extensions |-> extensions]

\* Raw actions of plan steps: the canonical ones, the keys of the alias
\* table, and misspelt, miscased, unknown and missing ones.
RawActions ==
  Canonical \cup DOMAIN actionAliases \cup
    {"member.roles.remove", "memeber.timeot", "Message.Create", "MEMBER.MUTE",
     "message.creat", "role", "foo.bar", "toString", ""}

\* Texts of the user message the plan was made for.
MessageContents ==
  {"", "do it", "hello repeat 3 times",
   "<@1> name has how many letters then timeout",
   "name has how many letters mute",
   "mute <@1>: name contains how many letters",
   "messages filter and replace"}

\* 839-906: the mentioned user is timed out; ok: the Discord requests succeed.
_handleCountAndTimeoutPattern(content, ok) ==
  IF ~mention(content, "@", "!").found
    THEN IF ok THEN Result(FALSE, "pattern", "", "No user mention found")
         ELSE Result(FALSE, "pattern", "", "rejected")
  ELSE IF ok THEN Result(TRUE, "pattern", "", "")
  ELSE Result(FALSE, "pattern", "", "rejected")

\* 915-967
_handleRepeatMessagePattern(content, ok) ==
  IF ~repeatMessage(content)
    THEN IF ok THEN Result(FALSE, "pattern", "", "Command format not recognized")
         ELSE Result(FALSE, "pattern", "", "rejected")
  ELSE IF ok THEN Result(TRUE, "pattern", "", "")
  ELSE Result(FALSE, "pattern", "", "rejected")

\* 774-832
_createDynamicExtension(content, ok) ==
  IF ~ok THEN Execution(Result(FALSE, "none", "", "Error creating dynamic extension"), <<>>, 0)
  ELSE IF countLetters(content)
    THEN Execution([_handleCountAndTimeoutPattern(content, ok) EXCEPT !.via = "extension"], <<>>, 1)
  ELSE IF repeatMessage(content)
    THEN Execution([_handleRepeatMessagePattern(content, ok) EXCEPT !.via = "extension"], <<>>, 1)
  ELSE IF filterMessages(content)
    THEN Execution(Result(TRUE, "extension", "", ""), <<>>, 1)
  ELSE Execution(Result(FALSE, "none", "", "Could not recognize action"), <<>>, 1)

\* 103-174.  ok: the Discord requests of the call succeed.
executeAction(content, params, ok) ==
  LET direct == mapped(params.action)
      alias == aliased(toLowerCase(params.action))
      viaAlias == direct = Undefined /\ alias # Undefined
      \* 124-126: an inherited value is no key of actionMappings
      corrected == IF viaAlias /\ alias.kind = "capability"
                     THEN mapped(alias.key) ELSE direct
      similarAction == _findSimilarAction(params.action)
      viaFuzzy == corrected = Undefined /\ similarAction # Null
      handler == IF viaFuzzy THEN mapped(similarAction) ELSE corrected
      actionUsed == IF viaFuzzy THEN similarAction
                    ELSE IF viaAlias THEN alias.key
                    ELSE params.action
      via == IF viaFuzzy THEN "fuzzy" ELSE IF viaAlias THEN "alias" ELSE "direct"
  IN  IF params.action = ""
        THEN Execution(Result(FALSE, "missing", "", "Missing action parameter"), <<>>, 0)
      ELSE IF content # "" /\ countAndTimeout(content)
        THEN Execution(_handleCountAndTimeoutPattern(content, ok), <<>>, 0)
      ELSE IF content # "" /\ repeatMessage(content)
        THEN Execution(_handleRepeatMessagePattern(content, ok), <<>>, 0)
      ELSE IF handler = Undefined
        THEN _createDynamicExtension(content, ok)
      ELSE IF handler.kind = "inherited"
        THEN Execution(Result(TRUE, via, actionUsed, ""), <<>>, 0)
      ELSE IF ok
        THEN Execution(Result(TRUE, via, actionUsed, ""),
                  <<[handler |-> handler.key, action |-> params.action]>>, 0)
      ELSE Execution(Result(FALSE, via, "", "rejected"),
                <<[handler |-> handler.key, action |-> params.action]>>, 0)

NoCall == [done |-> FALSE]

\* The handler before a step is handed to it.
HandlerIdle ==
  /\ stepParams = [action |-> ""]
  /\ messageContent = ""
  /\ dynamicExtensionCount = 0
  /\ handled = NoCall
  /\ dynamicResults = <<>>

\* 176 of src/core/bot.js: a step of a plan made for a user message.
HandlerInit ==
  /\ stepParams \in [action : RawActions]
  /\ messageContent \in MessageContents
  /\ dynamicExtensionCount = 0
  /\ handled = NoCall
  /\ dynamicResults = <<>>

\* 103-174: executeAction runs for the step.
ExecuteAction ==
  /\ handled = NoCall
  /\ \E ok \in BOOLEAN :
       LET call == executeAction(messageContent, stepParams, ok)
       IN  /\ handled' = [done |-> TRUE, result |-> call.result, calls |-> call.calls]
           /\ dynamicExtensionCount' = dynamicExtensionCount + call.extensions
  /\ UNCHANGED <<stepParams, messageContent, dynamicResults>>
  /\ UNCHANGED exceptHandler

\* 178-197 of src/core/bot.js: executeApprovedPlan records the result of the
\* step.
RecordResult ==
  /\ handled # NoCall
  /\ dynamicResults = <<>>
  /\ dynamicResults' =
       <<[stepId |-> "s1",
          success |-> handled.result.success,
          action |-> IF stepParams.action = "" THEN "unknown"
                     ELSE stepParams.action]>>
  /\ UNCHANGED <<stepParams, messageContent, dynamicExtensionCount, handled>>
  /\ UNCHANGED exceptHandler

HandlerNext == ExecuteAction \/ RecordResult

(***************************************************************************)
(* src/core/bot.js: executeApprovedPlan, with the steps as the plan gives  *)
(* them to the action executor                                             *)
(***************************************************************************)

\* The steps of a generated plan: tool, params.action and the critical flag
\* (bot.js 173-176; step.critical is read at 705 of
\* src/workflow/actionHandler.js).
StepShapes ==
  [tool : {"discord.request"},
   params : [action : {"message.create", "member.kick"}],
   critical : BOOLEAN]
  \cup {[tool |-> "other", params |-> [action |-> "message.create"], critical |-> FALSE]}

\* The plans planGenerator.generatePlan hands to the handler, with their
\* declared strategy (plan.meta.strategy).
DeclaredPlans ==
  [valid : {TRUE}, requiresApproval : BOOLEAN,
   meta : [strategy : {"sequential", "parallel"}],
   steps : SeqsUpTo(StepShapes, MaxSteps)]

\* The handler and the user message before the plan of the message is run.
RequestInit ==
  /\ stepParams = [action |-> ""]
  /\ messageContent \in {"do it", "hello repeat 3 times"}
  /\ dynamicExtensionCount = 0
  /\ handled = NoCall
  /\ dynamicResults = <<>>

\* bot.js 171-214: one pass of the loop of executeApprovedPlan.  A step of
\* the tool discord.request is handed to dynamicHandler.executeAction and its
\* result is pushed to dynamicResults; a step of another tool is passed.
ExecuteApprovedStep(r) ==
  /\ pc[r] = "executing"
  /\ cursor[r] < Len(plan[r].steps)
  /\ LET k == cursor[r] + 1
         step == plan[r].steps[k]
     IN  /\ cursor' = [cursor EXCEPT ![r] = k]
         /\ IF step.tool = "discord.request"
              THEN \E ok \in BOOLEAN :
                     LET call == executeAction(messageContent, step.params, ok)
                     IN  /\ stepParams' = step.params
                         /\ handled' = [done |-> TRUE, result |-> call.result,
                                        calls |-> call.calls]
                         /\ dynamicExtensionCount' =
                              dynamicExtensionCount + call.extensions
                         /\ dynamicResults' =
                              Append(dynamicResults,
                                     [stepId |-> k,
                                      success |-> call.result.success,
                                      action |-> step.params.action])
                         /\ dispatched' = [dispatched EXCEPT ![r] = @ + 1]
              ELSE UNCHANGED <<stepParams, handled, dynamicExtensionCount,
                               dynamicResults, dispatched>>
  /\ UNCHANGED <<config, pc, message, plan, session, elapsed, lastAck, notices,
                 executed, messageContent>>
  /\ UNCHANGED <<workflowVars, generateVars, textVars, busVars>>

\* bot.js 217-238: the loop has passed every step; the summary is sent (an
\* error of the reply is ignored) and executeApprovedPlan returns.
ExecuteApprovedEnd(r) ==
  /\ pc[r] = "executing"
  /\ cursor[r] = Len(plan[r].steps)
  /\ pc' = [pc EXCEPT ![r] = "done"]
  /\ UNCHANGED <<config, message, plan, session, elapsed, lastAck, notices,
                 executed, cursor, dispatched>>
  /\ UNCHANGED exceptApproval

\* One request from the message to the end of its plan: the requester reacts
\* while the collector is open.
RequestNext ==
  \/ \E admin \in BOOLEAN, p \in DeclaredPlans : MessageCreate(1, "u1", admin, p)
  \/ \E sent \in BOOLEAN : Propose(1, sent)
  \/ CollectorOpen(1) /\ \E e \in {Accept, Reject} : Reaction(1, "u1", e)
  \/ Tick(1)
  \/ Timeout(1)
  \/ \E sent \in BOOLEAN : NotifyApproved(1, sent)
  \/ \E sent \in BOOLEAN : NotifyRejected(1, sent)
  \/ \E sent \in BOOLEAN : NotifyExpired(1, sent)
  \/ \E sent \in BOOLEAN : Catch(1, sent)
  \/ ExecuteApprovedStep(1)
  \/ ExecuteApprovedEnd(1)

(***************************************************************************)
(* src/core/eventBus.js                                                    *)
(***************************************************************************)

\* The events listeners are added to (629, 703 of
\* src/extensions/moderationHandler.js).
Events == {"messageCreate", "command"}

\* The extension ids listeners are tagged with (696 of
\* src/extensions/moderationHandler.js, 783 of src/core/dynamicHandler.js).
ExtensionIds == {"message-monitor", "dynamic_ext_1"}

\* What a callback does with the data: it returns true, returns something
\* else, or throws.
Callbacks == {"true", "other", "throws"}

\* The options of addListener: priority and extensionId may be absent.
Options(priorities, extensionIds, exclusives) ==
  UNION {[exclusive : exclusives],
         [exclusive : exclusives, priority : priorities],
         [exclusive : exclusives, extensionId : extensionIds],
         [exclusive : exclusives, priority : priorities,
          extensionId : extensionIds]}

\* 23: options.priority || 0.
priority(options) ==
  IF "priority" \in DOMAIN options /\ options.priority # 0
    THEN options.priority ELSE 0

\* 24: options.extensionId || null.
extensionId(options) ==
  IF "extensionId" \in DOMAIN options /\ options.extensionId # ""
    THEN options.extensionId ELSE "null"

\* 36: (a, b) => b.priority - a.priority.
byPriorityAscending(a, b) == a.priority < b.priority

byPriority(a, b) == a.priority > b.priority

\* 36: the place Array.prototype.sort gives the element at i: the sort is
\* stable.
place(array, i) ==
  1 + Cardinality({j \in 1..Len(array) :
                     \/ byPriority(array[j], array[i])
                     \/ ~byPriority(array[i], array[j]) /\ j < i})

sorted(array) ==
  [k \in 1..Len(array) |->
     array[CHOOSE i \in 1..Len(array) : place(array, i) = k]]

\* 46-55: the event and the index of the listener with the id.
findIndex(id) ==
  UNION {{[event |-> event, index |-> index] :
            index \in {i \in 1..Len(listeners[event]) :
                         listeners[event][i].id = id}} :
         event \in Events}

splice(array, index) ==
  [k \in 1..Len(array) - 1 |-> IF k < index THEN array[k] ELSE array[k + 1]]

\* 66: listeners.filter(l => l.extensionId !== extensionId).
filteredUntagged(array, id) ==
  LET keep(l) == l.extensionId \notin {id, "null"}
  IN  SelectSeq(array, keep)

filtered(array, id) ==
  LET keep(l) == l.extensionId # id
  IN  SelectSeq(array, keep)

\* An array of listeners is the array of the event in the bus, or an array the
\* bus has replaced (69).
Live == [live |-> TRUE]

Replaced(array) == [live |-> FALSE, array |-> array]

elements(ref, event) == IF ref.live THEN listeners[event] ELSE ref.array

NoReturn == [call |-> "none"]

\* 5-9: the bus after construction; no emit is running.  An event without a
\* key in the map and an event with an empty array are both <<>>: emit (84)
\* treats them alike.
BusInit ==
  /\ listeners = [event \in Events |-> <<>>]
  /\ nextId = 1
  /\ removed = NoReturn
  /\ epc = "idle"
  /\ emitEvent = ""
  /\ emitArray = Live
  /\ emitIndex = 0
  /\ emitHandled = FALSE
  /\ invoked = <<>>
  /\ emitted = NoReturn
  /\ registered = <<>>

\* 18-39: addListener.
AddListener(event, callback, options) ==
  /\ LET listener == [id |-> nextId,
                      callback |-> callback,
                      priority |-> priority(options),
                      extensionId |-> extensionId(options),
                      options |-> options]
     IN  listeners' =
           [listeners EXCEPT
              ![event] = sorted(Append(@, listener))]
  /\ nextId' = nextId + 1
  /\ UNCHANGED <<removed, epc, emitEvent, emitArray, emitIndex, emitHandled,
                 invoked, emitted, registered>>
  /\ UNCHANGED exceptBus

\* 46-55: removeListener.
RemoveListener(id) ==
  /\ IF findIndex(id) # {}
       THEN LET found == CHOOSE found \in findIndex(id) : TRUE
            IN  /\ listeners' =
                     [listeners EXCEPT ![found.event] = splice(@, found.index)]
                /\ removed' = [call |-> "removeListener", value |-> TRUE]
       ELSE /\ listeners' = listeners
            /\ removed' = [call |-> "removeListener", value |-> FALSE]
  /\ UNCHANGED <<nextId, epc, emitEvent, emitArray, emitIndex, emitHandled,
                 invoked, emitted, registered>>
  /\ UNCHANGED exceptBus

\* 63-70: count += initialLength - filtered.length, for every event.
RECURSIVE removedCount(_, _)
removedCount(events, id) ==
  IF events = {} THEN 0
  ELSE LET event == CHOOSE event \in events : TRUE
       IN  Len(listeners[event]) - Len(filtered(listeners[event], id))
             + removedCount(events \ {event}, id)

\* 62-73: removeExtensionListeners.  The map gets a new array for every
\* event (69); a loop that iterates the old array of an event keeps it.
RemoveExtensionListeners(id) ==
  /\ listeners' = [event \in Events |-> filtered(listeners[event], id)]
  /\ removed' =
       [call |-> "removeExtensionListeners", value |-> removedCount(Events, id)]
  /\ emitArray' =
       IF epc = "dispatching" /\ emitArray.live
         THEN Replaced(listeners[emitEvent]) ELSE emitArray
  /\ UNCHANGED <<nextId, epc, emitEvent, emitIndex, emitHandled, invoked,
                 emitted, registered>>
  /\ UNCHANGED exceptBus

\* 81-87: emit is called; it returns false for an event without listeners.
Emit(event) ==
  /\ epc = "idle"
  /\ emitEvent' = event
  /\ registered' = listeners[event]
  /\ IF listeners[event] = <<>>
       THEN /\ epc' = "returned"
            /\ emitted' =
                 [call |-> "emit", threw |-> FALSE, value |-> FALSE]
       ELSE /\ epc' = "dispatching"
            /\ emitted' = emitted
  /\ UNCHANGED <<listeners, nextId, removed, emitArray, emitIndex,
                 emitHandled, invoked>>
  /\ UNCHANGED exceptBus

\* 93: result === true.
signalsAlways(callback) == TRUE

signals(callback) == callback = "true"

\* 96: listener.options.exclusive ends the loop.
stopsNever(listener) == FALSE

stops(listener) == listener.options.exclusive

\* 91-100: the callback runs inside try; no error of it leaves emit.
escapesUncaught(callback) == callback = "throws"

escapes(callback) == FALSE

\* 89-101: the loop takes the next listener of the array and awaits its
\* callback; a callback that throws is logged (99).  A loop that has ended
\* returns handled.
Invoke ==
  /\ epc = "dispatching"
  /\ emitIndex < Len(elements(emitArray, emitEvent))
  /\ LET listener == elements(emitArray, emitEvent)[emitIndex + 1]
         result == signals(listener.callback)
     IN  /\ invoked' = Append(invoked, listener)
         /\ emitIndex' = emitIndex + 1
         /\ IF escapes(listener.callback)
              THEN /\ epc' = "returned"
                   /\ emitted' =
                        [call |-> "emit", threw |-> TRUE, value |-> FALSE]
                   /\ emitHandled' = emitHandled
              ELSE /\ emitHandled' = (emitHandled \/ result)
                   /\ IF result /\ stops(listener)
                        THEN /\ epc' = "returned"
                             /\ emitted' =
                                  [call |-> "emit", threw |-> FALSE,
                                   value |-> TRUE]
                        ELSE /\ epc' = epc
                             /\ emitted' = emitted
  /\ UNCHANGED <<listeners, nextId, removed, emitEvent, emitArray,
                 registered>>
  /\ UNCHANGED exceptBus

\* 89, 101: the array has no further element; emit returns handled.
Return ==
  /\ epc = "dispatching"
  /\ emitIndex >= Len(elements(emitArray, emitEvent))
  /\ epc' = "returned"
  /\ emitted' = [call |-> "emit", threw |-> FALSE, value |-> emitHandled]
  /\ UNCHANGED <<listeners, nextId, removed, emitEvent, emitArray, emitIndex,
                 emitHandled, invoked, registered>>
  /\ UNCHANGED exceptBus

\* Calls that add and remove listeners of an event, and then one emit on it.
BusNext ==
  \/ /\ epc = "idle" /\ nextId <= MaxListeners
     /\ \E callback \in Callbacks, options \in Options({-1, 1}, {}, BOOLEAN) :
          AddListener("messageCreate", callback, options)
  \/ epc = "idle" /\ \E id \in 1..MaxListeners : RemoveListener(id)
  \/ epc = "idle" /\ \E id \in ExtensionIds : RemoveExtensionListeners(id)
  \/ Emit("messageCreate")
  \/ Invoke
  \/ Return

\* The listeners of two extensions and of the bot itself on two events.
ScopeNext ==
  \/ /\ nextId <= MaxListeners
     /\ \E event \in Events, options \in Options({1}, ExtensionIds, {FALSE}) :
          AddListener(event, "other", options)
  \/ \E id \in 1..MaxListeners : RemoveListener(id)
  \/ \E id \in ExtensionIds : RemoveExtensionListeners(id)

\* Listeners are added and removed while an emit on the event is in progress:
\* the callbacks are awaited (92), and a callback or any other code that runs
\* meanwhile may call addListener, removeListener and
\* removeExtensionListeners (758-762 of src/extensions/moderationHandler.js).
DispatchNext ==
  \/ /\ nextId <= MaxListeners
     /\ \E options \in Options({1}, {"message-monitor"}, {FALSE}) :
          AddListener("messageCreate", "other", options)
  \/ \E id \in 1..MaxListeners : RemoveListener(id)
  \/ RemoveExtensionListeners("message-monitor")
  \/ Emit("messageCreate")
  \/ Invoke
  \/ Return

(***************************************************************************)
(* Specifications                                                          *)
(***************************************************************************)
Init ==
  /\ ApprovalInit /\ WorkflowInit /\ GenerateInit /\ TextIdle /\ HandlerIdle
  /\ BusInit

SessionSpec == Init /\ [][SessionNext]_vars

\* The collector's timer is a timer of the event loop: it runs and fires.
SessionFairSpec ==
  /\ Init /\ [][SessionNext]_vars
  /\ WF_vars(Tick(1)) /\ WF_vars(Timeout(1))

ApprovalSpec == Init /\ [][ApprovalNext]_vars

\* The engine alone, under a configuration without AUTO_APPROVE_ADMINS.
EngineInit ==
  /\ ApprovalInit /\ WorkflowInit /\ GenerateInit /\ TextIdle /\ HandlerIdle /\ BusInit
  /\ ~config.AUTO_APPROVE_ADMINS

\* _fixJsonFormat on its own, applied to one backend text.
RepairStart ==
  /\ ApprovalInit /\ WorkflowInit /\ GenerateInit /\ RepairInit /\ HandlerIdle /\ BusInit
  /\ ~config.AUTO_APPROVE_ADMINS

RepairSpec == RepairStart /\ [][RepairNext]_vars

\* _generateFallbackResponse on its own, applied to one user text.
FallbackStart ==
  /\ ApprovalInit /\ WorkflowInit /\ GenerateInit /\ FallbackInit /\ HandlerIdle /\ BusInit
  /\ ~config.AUTO_APPROVE_ADMINS

FallbackSpec == FallbackStart /\ [][FallbackNext]_vars

\* executeAction on its own, applied to one step.
HandlerStart ==
  /\ ApprovalInit /\ WorkflowInit /\ GenerateInit /\ TextIdle /\ HandlerInit
  /\ BusInit
  /\ ~config.AUTO_APPROVE_ADMINS

HandlerSpec == HandlerStart /\ [][HandlerNext]_vars

\* One request end to end, from the message to the steps of its plan.
RequestStart ==
  /\ ApprovalInit /\ WorkflowInit /\ GenerateInit /\ TextIdle /\ RequestInit
  /\ BusInit

RequestSpec == RequestStart /\ [][RequestNext]_vars

\* The language model service alone: invocations of generateResponse on one
\* instance.
GenerateSpec == EngineInit /\ [][GenerateNext]_vars

ConcurrentSpec == EngineInit /\ [][ConcurrentNext]_vars

\* The event bus alone.
BusSpec == EngineInit /\ [][BusNext]_vars

ScopeSpec == EngineInit /\ [][ScopeNext]_vars

DispatchSpec == EngineInit /\ [][DispatchNext]_vars

RunnerSpec == EngineInit /\ [][RunnerNext]_vars

WorkflowSpec == EngineInit /\ [][WorkflowNext]_vars

(***************************************************************************)
(* Approval gate (src/core/bot.js)                                         *)
(***************************************************************************)

\* C1 (as stated): a step of a plan with requiresApproval = true is handed to
\* the action executor only when the plan's approval session is Approved,
\* whoever the requester and whatever the configuration.
C1_DispatchOnlyApproved ==
  \A r \in Requests :
    plan[r].requiresApproval /\ dispatched[r] > 0 => session[r] = "Approved"

\* C1 (amended): a step of a plan with requiresApproval = true is handed to the
\* action executor only when the plan's approval session is Approved, or when
\* AUTO_APPROVE_ADMINS is set and the requester holds ADMINISTRATOR.
C1_DispatchOnlyApprovedOrAdmin ==
  \A r \in Requests :
    plan[r].requiresApproval /\ dispatched[r] > 0 =>
      \/ session[r] = "Approved"
      \/ config.AUTO_APPROVE_ADMINS /\ message[r].admin

C1_Witness ==
  \E r \in Requests :
    /\ plan[r].requiresApproval /\ dispatched[r] > 0
    /\ session[r] = "Approved"
    /\ ~(config.AUTO_APPROVE_ADMINS /\ message[r].admin)

\* C2: every Proposed session comes to a terminal state; it leaves Proposed for
\* Approved or Rejected only by a counted acknowledgement and for Expired only
\* at the 30 s deadline; and the plan of an Expired or Rejected session is
\* never executed and none of its steps reaches the action executor.
C2_SessionResolves ==
  /\ \A r \in Requests : (session[r] = "Proposed") ~> (session[r] \in Terminal)
  /\ [][\A r \in Requests :
          session[r] = "Proposed" /\ session'[r] # "Proposed" =>
            \/ session'[r] = "Expired" /\ elapsed[r] >= ApprovalWindowMs
                  /\ lastAck' # Ack(r, "counted")
            \/ session'[r] \in {"Approved", "Rejected"} /\ lastAck' = Ack(r, "counted")]_vars
  /\ [](\A r \in Requests :
          session[r] \in {"Expired", "Rejected"} =>
            executed[r] = 0 /\ dispatched[r] = 0)

C2_Witness ==
  \E r \in Requests :
    /\ session[r] = "Expired" /\ pc[r] = "done"
    /\ "planExpired" \in notices[r]
    /\ plan[r].requiresApproval /\ Len(plan[r].steps) > 0

\* C3: a reaction on the approval message that is not an accept or reject
\* signal of the requester leaves the session, and the handler waiting on it,
\* as they were; a Proposed session stays Proposed.
C3_OnlyRequesterSignals ==
  [][\A r \in Requests, u \in Users, e \in Emojis :
       /\ Reaction(r, u, e)
       /\ ~(u = message[r].author /\ e \in {Accept, Reject})
       => /\ session'[r] = session[r]
          /\ pc'[r] = pc[r]
          /\ executed'[r] = executed[r]]_vars

C3_Witness ==
  \E r \in Requests :
    session[r] = "Proposed" /\ lastAck = Ack(r, "filtered") /\ pc[r] = "awaiting"

\* C4: a session that is Approved, Rejected or Expired keeps that state in
\* every later step, whatever reaction or timer event comes, and a plan is
\* executed at most once.
C4_TerminalStates ==
  [][\A r \in Requests :
       /\ executed'[r] <= 1
       /\ session[r] \in Terminal => session'[r] = session[r]]_vars

C4_Witness ==
  \E r \in Requests :
    /\ session[r] = "Approved" /\ executed[r] = 1
    /\ lastAck = Ack(r, "late") /\ pc[r] = "done"

(***************************************************************************)
(* Workflow runner (src/workflow/actionHandler.js)                         *)
(***************************************************************************)
Sequential(w) == wplan[w].valid /\ Strategy(wplan[w]) = "sequential"
Parallel(w) == wplan[w].valid /\ Strategy(wplan[w]) = "parallel"
Critical(w, k) == wplan[w].steps[k].critical
NumSteps(w) == Len(wplan[w].steps)

\* The step of a sequential call at which a critical step failed; 0 if none has.
CriticalFailureAt(w) ==
  IF \E k \in 1..NumSteps(w) : Critical(w, k) /\ outcome[w][k] \in {"fail", "throw"}
    THEN CHOOSE k \in 1..NumSteps(w) :
           Critical(w, k) /\ outcome[w][k] \in {"fail", "throw"}
    ELSE 0

\* One entry per step 1..n in step order, each with the success of its call.
OnePerStep(res, w, n) ==
  /\ Len(res) = n
  /\ \A j \in 1..n :
       res[j].stepId = j /\ res[j].success = (outcome[w][j] = "ok")

\* C5: when a sequential call has ended on the failure of the critical step at
\* position k, the workflow's record holds exactly k results, one per step
\* attempted, its status is failed, and no step after k was dispatched.
C5_CriticalFailureLeavesKResults ==
  \A w \in Workflows :
    Sequential(w) /\ ret[w].returned /\ CriticalFailureAt(w) > 0 =>
      LET k == CriticalFailureAt(w)
          rec == activeWorkflows[workflowId[w]]
      IN  /\ rec.status = "failed"
          /\ OnePerStep(RecordResults(rec), w, k)
          /\ begun[w] = 1..k

\* C6: in a sequential call a failed step that is not critical (success false
\* or a throw) has exactly one result, with success false, and the step after
\* it is dispatched; a call in which no critical step fails dispatches every
\* step, returns one result per step and leaves the status completed.
C6_NonCriticalFailureContinues ==
  \A w \in Workflows :
    Sequential(w) =>
      /\ \A k \in Resolved(w) :
           ~Critical(w, k) /\ outcome[w][k] # "ok" =>
             /\ Cardinality({j \in 1..Len(results[w]) : results[w][j].stepId = k}) = 1
             /\ \A j \in 1..Len(results[w]) :
                  results[w][j].stepId = k => ~results[w][j].success
             /\ k < NumSteps(w) =>
                  \/ k + 1 \in begun[w]
                  \/ wpc[w] = "sequential" /\ SeqReady(w)
             /\ k < NumSteps(w) /\ ret[w].returned => k + 1 \in begun[w]
      /\ ret[w].returned /\ CriticalFailureAt(w) = 0 =>
           /\ ret[w].success
           /\ begun[w] = 1..NumSteps(w)
           /\ OnePerStep(ret[w].results, w, NumSteps(w))
           /\ activeWorkflows[workflowId[w]].status = "completed"

C6_Witness ==
  \E w \in Workflows :
    /\ Sequential(w) /\ ret[w].returned /\ ret[w].success
    /\ NumSteps(w) = 2 /\ ~Critical(w, 1)
    /\ outcome[w][1] = "fail" /\ outcome[w][2] = "throw"

\* C7: in a sequential call at most one _executeStep call is in flight, and
\* the call of a step has begun only if the calls of all earlier steps have
\* returned or thrown.
C7_SequentialTotalOrder ==
  \A w \in Workflows :
    Sequential(w) =>
      /\ Cardinality(begun[w] \ Resolved(w)) <= 1
      /\ \A k \in begun[w] : \A j \in 1..(k - 1) : j \in Resolved(w)

C7_Witness ==
  \E w \in Workflows :
    /\ Sequential(w) /\ wpc[w] = "sequential"
    /\ begun[w] = {1, 2} /\ Resolved(w) = {1}

\* C8: a parallel call dispatches every step whatever the other steps do, has
\* not returned while a step's outcome is outstanding, and returns, with
\* status completed, exactly one result per step in step order, in whatever
\* order the steps ended.
C8_ParallelAllSettled ==
  \A w \in Workflows :
    Parallel(w) =>
      /\ wpc[w] \in {"parallel", "returned"} => begun[w] = 1..NumSteps(w)
      /\ Resolved(w) # 1..NumSteps(w) => ~ret[w].returned
      /\ ret[w].returned =>
           /\ ret[w].success
           /\ OnePerStep(ret[w].results, w, NumSteps(w))
           /\ activeWorkflows[workflowId[w]].status = "completed"

C8_Witness ==
  \E w \in Workflows :
    /\ Parallel(w) /\ ret[w].returned /\ NumSteps(w) = 2
    /\ settled[w][1].stepId = 2 /\ settled[w][2].stepId = 1
    /\ outcome[w][1] = "ok" /\ outcome[w][2] = "throw"

C10_DistinctWorkflowIds ==
  \A v, w \in Workflows :
    workflowId[v] # NoId /\ workflowId[w] # NoId =>
      /\ v # w => workflowId[v] # workflowId[w]
      /\ activeWorkflows[workflowId[w]].plan = w

(***************************************************************************)
(* Language model service (src/ai/llmService.js)                           *)
(***************************************************************************)
Done(c) == gpc[c] = "done"

\* The invocation's requests that were answered before its first success.
Exhausted(c) == \A i \in 1..Len(replies[c]) : replies[c][i] = "failed"

\* C11: one generateResponse invocation sends exactly min(N,
\* attempts-to-success) requests to the backend, N being retryAttempts: never
\* more than N, none after a request that succeeded, and when it has ended
\* as many as it took to succeed, or N when every attempt failed.
C11_BackendCallsBounded ==
  \A c \in GenCalls :
    /\ backendCalls[c] <= RetryAttempts
    /\ backendCalls[c] = Len(replies[c]) + (IF gpc[c] = "fetch" THEN 1 ELSE 0)
    /\ \A i \in 1..(Len(replies[c]) - 1) : replies[c][i] = "failed"
    /\ Done(c) =>
         backendCalls[c] = IF Exhausted(c) THEN RetryAttempts ELSE Len(replies[c])

\* An invocation succeeded at its second request and another one used up its
\* three attempts.
C11_Witness ==
  \E c, d \in GenCalls :
    /\ Done(c) /\ replies[c] = <<"failed", "ok">> /\ backendCalls[c] = 2
    /\ Done(d) /\ Exhausted(d) /\ backendCalls[d] = RetryAttempts

RECURSIVE Pow2(_)
Pow2(n) == IF n = 0 THEN 1 ELSE 2 * Pow2(n - 1)

\* C12: in every invocation the timer before the first retry is set with
\* the base delay and the one before each later retry with twice the delay
\* of the one before, whatever invocations came before or overlap.
C12_DelaysDoubleFromBase ==
  \A c \in GenCalls :
    \A k \in 1..Len(delays[c]) : delays[c][k] = RetryDelay * Pow2(k - 1)

\* C13: within one invocation the delay before the k-th retry is never
\* smaller than the delay before the (k-1)-th, also when other invocations
\* on the instance interleave with it.
C13_DelaysNonDecreasing ==
  \A c \in GenCalls :
    \A k \in 2..Len(delays[c]) : delays[c][k] >= delays[c][k - 1]

\* An invocation waited twice, and between its two waits another invocation
\* doubled the instance's delay as well.
C13_Witness ==
  \E c \in GenCalls :
    /\ Len(delays[c]) = 2
    /\ delays[c][2] > Backoff(delays[c][1])

\* C14: an invocation whose every attempt failed returns the plan of the
\* fallback synthesizer for its user text, having sent no request beyond
\* its N attempts.
C14_FallbackAfterExhaustion ==
  \A c \in GenCalls :
    Done(c) /\ Exhausted(c) =>
      /\ backendCalls[c] = RetryAttempts
      /\ generated[c].kind = "fallback"

\* C15: for a plan text with exactly one defect of the handled set, the
\* text _fixJsonFormat returns parses, and parses to the structure of the
\* text without the defect.
C15_RepairRestoresStructure ==
  fixed.done /\ payload.defect \in Defects =>
    /\ parses(fixed.text)
    /\ JSONparse(fixed.text) = JSONparse(payload.intended)

\* C16: when the rewritten text still does not parse, _fixJsonFormat
\* returns the backend text as it came.
C16_UnparseableReturnsOriginal ==
  fixed.done /\ ~parses(fixed.text) => fixed.text = payload.text

\* The plan has a step with one of the actions.
HasStep(p, actions) ==
  \E i \in 1..Len(p.steps) : p.steps[i].params.action \in actions

\* C17: every plan the fallback synthesizer returns with a member.ban or
\* member.kick step has requiresApproval true, whatever the user text.
C17_BanKickRequireApproval ==
  fallback.done /\ HasStep(fallback.plan, {"member.ban", "member.kick"}) =>
    fallback.plan.requiresApproval = TRUE

\* The synthesizer returned a plan that kicks the member mentioned.
C17_Witness ==
  /\ fallback.done
  /\ fallback.plan.steps[1].params.action = "member.kick"
  /\ fallback.plan.steps[1].params.userId = "42"
  /\ fallback.plan.requiresApproval

\* C18: for the user text "send hello N times" the synthesizer returns a
\* sequential plan of exactly N steps, each a message.create with content
\* "hello", with ids unique within the plan.
C18_SendHelloNTimes ==
  \A n \in 1..MaxTimes :
    fallback.done /\ userText = "send hello " \o String(n) \o " times" =>
      LET steps == fallback.plan.steps
      IN  /\ Len(steps) = n
          /\ fallback.plan.meta.strategy = "sequential"
          /\ \A i \in 1..Len(steps) :
                /\ steps[i].params.action = "message.create"
                /\ steps[i].params.content = "hello"
          /\ \A i, j \in 1..Len(steps) : i # j => steps[i].id # steps[j].id

(***************************************************************************)
(* Action resolver (src/core/dynamicHandler.js)                            *)
(***************************************************************************)

\* The user text matches none of the command patterns of 83-94.
NoPattern ==
  /\ ~countAndTimeout(messageContent)
  /\ ~repeatMessage(messageContent)

\* C19: for every key of the alias table, executeAction on that raw action
\* (the user text matching no command pattern) takes the alias path and
\* calls the handler of the alias's target with the step.
C19_AliasKeysResolveViaAlias ==
  handled.done /\ NoPattern /\ stepParams.action \in DOMAIN actionAliases =>
    /\ handled.result.via = "alias"
    /\ handled.calls =
         <<[handler |-> actionAliases[stepParams.action],
            action |-> stepParams.action]>>

\* C20: executeAction on the raw action "member.roles.remove" takes the
\* alias path and calls the handler of role.remove, and no handler of a
\* member.* action.
C20_RolesRemoveIsRoleRemove ==
  handled.done /\ NoPattern /\ stepParams.action = "member.roles.remove" =>
    /\ handled.result.via = "alias"
    /\ \A i \in 1..Len(handled.calls) : handled.calls[i].handler = "role.remove"
    /\ Len(handled.calls) = 1

\* The raw action has no exact and no alias match: executeAction hands it to
\* _findSimilarAction.
Unmatched(raw) ==
  /\ raw # ""
  /\ mapped(raw) = Undefined
  /\ aliased(toLowerCase(raw)) = Undefined

\* The canonical identifiers of the raw identifier's category (the text
\* before its first "."), in the order of the table.
SameCategory(raw) ==
  LET lower == toLowerCase(raw)
      dot == indexOf(lower, ".")
  IN  IF dot = 0 THEN <<>>
      ELSE SelectSeq(actionMappings,
             LAMBDA a : startsWith(a, SubSeq(lower, 1, dot)))

\* What fuzzy matching is to return, given the candidates and, for each,
\* the edit distance and the greater of the two lengths: the candidates of
\* the greatest similarity when that clears 0.6, else the first member of
\* the category, else none.
Chosen[candidates \in Seq(STRING), category \in Seq(STRING), distance \in Seq(Nat), maxLen \in Seq(Nat)] ==
  LET highest == {i \in 1..Len(candidates) :
                    \A k \in 1..Len(candidates) :
                      (maxLen[k] - distance[k]) * maxLen[i]
                        <= (maxLen[i] - distance[i]) * maxLen[k]}
      clears(i) == 10 * (maxLen[i] - distance[i]) >= 6 * maxLen[i]
  IN  IF \E i \in highest : clears(i) THEN {candidates[i] : i \in highest}
      ELSE IF category # <<>> THEN {category[1]}
      ELSE {Null}

Similar(raw) ==
  LET lower == toLowerCase(raw)
      category == SameCategory(raw)
      candidates == IF category = <<>> THEN actionMappings ELSE category
  IN  Chosen[candidates, category,
             [i \in 1..Len(candidates) |->
                _levenshteinDistance(lower, toLowerCase(candidates[i]))],
             [i \in 1..Len(candidates) |->
                Max({Len(lower), Len(candidates[i])})]]

\* C21: for a raw action with no exact or alias match, fuzzy matching
\* returns the candidate of the greatest similarity among the canonical
\* actions of its category (among all of them when the category has none)
\* iff that similarity is at least 0.6; below that it returns the first
\* canonical action of the category when there is one, and none otherwise.
\* What it returns is the handler executeAction calls; with none returned no
\* handler is called.
C21_FuzzyMatchSelection ==
  handled.done /\ NoPattern /\ Unmatched(stepParams.action) =>
    \/ /\ handled.result.via = "fuzzy"
       /\ Len(handled.calls) = 1
       /\ handled.calls[1].handler \in Similar(stepParams.action)
    \/ /\ handled.result.via \in {"none", "extension"}
       /\ handled.calls = <<>>
       /\ Null \in Similar(stepParams.action)

\* A misspelt action of no category was matched against every canonical
\* action and resolved to the one it is nearest to.
C21_Witness ==
  /\ handled.done
  /\ stepParams.action = "memeber.timeot"
  /\ handled.result.via = "fuzzy"
  /\ handled.calls = <<[handler |-> "member.timeout", action |-> "memeber.timeot"]>>

\* No exact, alias or fuzzy match for the raw action, and the user text
\* matches none of the patterns of executeAction and _createDynamicExtension.
Unresolvable ==
  /\ NoPattern
  /\ ~countLetters(messageContent)
  /\ ~filterMessages(messageContent)
  /\ stepParams.action \notin Canonical
  /\ toLowerCase(stepParams.action) \notin DOMAIN actionAliases
  /\ stepParams.action # "" => Similar(stepParams.action) = {Null}

\* C22: executeAction returns a result for every raw action, and for an
\* action with no exact, alias, fuzzy or pattern match the result is a
\* failure and no handler of the action table has been called.
C22_UnresolvableFailsWithoutDispatch ==
  handled.done /\ Unresolvable =>
    /\ ~handled.result.success
    /\ handled.result.via \in {"none", "missing"}
    /\ handled.calls = <<>>

\* C23: when the alias or fuzzy path corrects a step's raw action, the
\* handler is called with the canonical action in the step's action field,
\* and the result recorded for the step names the canonical action.
C23_CorrectionReplacesRawAction ==
  handled.done /\ handled.result.via \in {"alias", "fuzzy"} =>
    /\ \A i \in 1..Len(handled.calls) :
         handled.calls[i].action = handled.calls[i].handler
    /\ \A i \in 1..Len(dynamicResults) :
         dynamicResults[i].action \in Canonical


(***************************************************************************)
(* Event bus (src/core/eventBus.js)                                        *)
(***************************************************************************)

\* The priority a listener was added with; a listener added without one
\* counts as 0.
Given(listener) ==
  IF "priority" \in DOMAIN listener.options
    THEN listener.options.priority ELSE 0

\* C24: whatever listeners were added and removed before, emit invokes the
\* listeners of the event in non-increasing order of the priority they were
\* added with, a listener added without priority counting as 0.
C24_InvokedByPriority ==
  \A i, j \in 1..Len(invoked) :
    i < j => Given(invoked[i]) >= Given(invoked[j])

\* An emit that returned after it invoked a listener added without priority
\* and then one of priority -1 that was added earlier, a third listener
\* having been removed before.
C24_Witness ==
  /\ epc = "returned"
  /\ removed.call = "removeListener" /\ removed.value
  /\ Len(invoked) = 2
  /\ "priority" \notin DOMAIN invoked[1].options
  /\ Given(invoked[2]) = -1
  /\ invoked[1].id > invoked[2].id

\* C25: emit returns true exactly when a callback it invoked in the call
\* returned true; it returns false for an event without listeners, when every
\* callback returned another value and when every callback threw; no error
\* leaves it.
C25_HandledIffSignalled ==
  epc = "returned" =>
    /\ ~emitted.threw
    /\ emitted.value <=>
         \E i \in 1..Len(invoked) : invoked[i].callback = "true"
    /\ registered = <<>> => ~emitted.value
    /\ (\A i \in 1..Len(registered) : registered[i].callback = "other")
         => ~emitted.value
    /\ (\A i \in 1..Len(registered) : registered[i].callback = "throws")
         => ~emitted.value

\* An emit that returned true after a callback that threw, one that returned
\* another value and one that returned true.
C25_Witness ==
  /\ epc = "returned"
  /\ emitted.value
  /\ Len(invoked) = 3
  /\ invoked[1].callback = "throws"
  /\ invoked[2].callback = "other"
  /\ invoked[3].callback = "true"

\* The listeners an emit invokes of an array: all up to the first exclusive
\* one whose callback returns true, all of them when there is none.
Dispatched(array) ==
  LET ends == {i \in 1..Len(array) :
                 array[i].options.exclusive /\ array[i].callback = "true"}
      last == IF ends = {} THEN Len(array)
              ELSE CHOOSE i \in ends : \A j \in ends : i <= j
  IN  SubSeq(array, 1, last)

\* C26: after an exclusive listener's callback returned true the emit invokes
\* no further listener of the event; an exclusive listener whose callback did
\* not return true and a listener that is not exclusive and whose callback
\* returned true do not end the dispatch: the emit has invoked every listener
\* up to the first exclusive one that returned true.
C26_ExclusiveEndsDispatch ==
  /\ \A i \in 1..Len(invoked) :
       invoked[i].options.exclusive /\ invoked[i].callback = "true"
         => i = Len(invoked)
  /\ epc = "returned" => invoked = Dispatched(registered)

\* An emit that went on after the callback of a listener that is not
\* exclusive returned true, and that the next listener, an exclusive one
\* whose callback returned true, ended before the last listener.
C26_Witness ==
  /\ epc = "returned"
  /\ Len(registered) = 3
  /\ Len(invoked) = 2
  /\ ~invoked[1].options.exclusive /\ invoked[1].callback = "true"
  /\ invoked[2].options.exclusive /\ invoked[2].callback = "true"

\* The extension id a listener was added with, "" when it was added without.
Tag(listener) ==
  IF "extensionId" \in DOMAIN listener.options
    THEN listener.options.extensionId ELSE ""

\* The listeners an array holds for the extension id.
Tagged(array, id) == {i \in 1..Len(array) : Tag(array[i]) = id}

Others(array, id) ==
  LET other(l) == Tag(l) # id
  IN  SelectSeq(array, other)

\* C27: removeExtensionListeners(id) leaves no listener added with the id on
\* any event, returns how many such listeners there were, and leaves on every
\* event the listeners added with another id or without one, in the order
\* they had.
C27_ScopeRemoval ==
  [][\A id \in ExtensionIds :
       RemoveExtensionListeners(id) =>
         /\ \A event \in Events : Tagged(listeners'[event], id) = {}
         /\ removed'.value =
              Cardinality({entry \in Events \X (1..MaxListeners) :
                             entry[2] \in Tagged(listeners[entry[1]], id)})
         /\ \A event \in Events :
              listeners'[event] = Others(listeners[event], id)]_vars

\* removeExtensionListeners has removed the second of three listeners of an
\* event and left the first, of another extension, and the third, of no
\* extension.
C27_Witness ==
  /\ removed.call = "removeExtensionListeners"
  /\ removed.value = 1
  /\ Len(listeners["messageCreate"]) = 2
  /\ listeners["messageCreate"][1].id = 1
  /\ listeners["messageCreate"][2].id = 3
  /\ Tag(listeners["messageCreate"][1]) = "dynamic_ext_1"
  /\ Tag(listeners["messageCreate"][2]) = ""

\* C28: a callback that throws does not end the emit: the error does not
\* leave emit, and the listeners that follow the one that threw are invoked
\* in the order of the array, as far as after any other callback.
C28_ThrowDoesNotEndDispatch ==
  /\ epc = "returned" => ~emitted.threw
  /\ \A i \in 1..Len(invoked) :
       invoked[i].callback = "throws" =>
         \/ epc = "dispatching" /\ invoked = SubSeq(registered, 1, emitIndex)
         \/ /\ epc = "returned"
            /\ SubSeq(invoked, i + 1, Len(invoked)) =
                 Dispatched(SubSeq(registered, i + 1, Len(registered)))

\* An emit that returned false after two callbacks that threw and a third
\* that returned a value other than true.
C28_Witness ==
  /\ epc = "returned"
  /\ ~emitted.threw /\ ~emitted.value
  /\ Len(invoked) = 3
  /\ invoked[1].callback = "throws"
  /\ invoked[2].callback = "throws"
  /\ invoked[3].callback = "other"

(***************************************************************************)
(* Containment of errors (src/core/bot.js)                                 *)
(***************************************************************************)

\* The handler invocation of request r met an error.
Erred(r) == pc[r] = "caught" \/ "error" \in notices[r]

\* What the handler invocations keep for request r.
Of(r) ==
  <<pc[r], message[r], plan[r], session[r], elapsed[r], notices[r],
    executed[r], cursor[r], dispatched[r]>>

\* A step of the handler invocation of request r that takes it further.
Advance(r) == Handler(r) /\ Of(r)' # Of(r)

\* C29: an error met while a request is processed ends that request only:
\* the step that raises or catches it changes nothing of another request,
\* and every other request that has not ended can take its next step.
C29_ErrorsContained ==
  /\ [](\A r, q \in Requests :
          Erred(r) /\ q # r /\ pc[q] # "done" => ENABLED Advance(q))
  /\ [][\A r, q \in Requests :
          q # r /\ pc[r] # pc'[r] /\ "caught" \in {pc[r], pc'[r]}
            => Of(q)' = Of(q)]_vars

\* The first request ended on an error that the handler's catch reported;
\* the second has been approved and is executing its plan.
C29_Witness ==
  /\ pc[1] = "done" /\ "error" \in notices[1]
  /\ session[2] = "Approved" /\ pc[2] = "executing" /\ dispatched[2] = 1

(***************************************************************************)
(* Workflow status (src/workflow/actionHandler.js)                         *)
(***************************************************************************)

\* The calls of executeWorkflow that registered a record.
Issued == {w \in Workflows : workflowId[w] # NoId}

\* The status getWorkflowStatus reports for the id of call w.
StatusOf(w) == getWorkflowStatus(workflowId[w]).status

\* C30 (as stated): a call of executeWorkflow with a plan registers its record
\* as running before a step is dispatched; the status getWorkflowStatus
\* reports for its id is running until the call returns and from then on, for
\* good, completed or failed as the call returned; for an id that no call
\* was given getWorkflowStatus returns null.
C30_StatusSettlesOnce ==
  /\ \A w \in Issued :
       /\ ~ret[w].returned => StatusOf(w) = "running"
       /\ ret[w].returned =>
            StatusOf(w) = IF ret[w].success THEN "completed" ELSE "failed"
  /\ \A w \in Workflows : begun[w] # {} => w \in Issued
  /\ \A id \in (0..MaxClock) \X Rands :
       id \notin {workflowId[w] : w \in Workflows}
         => getWorkflowStatus(id) = NoStatus

(***************************************************************************)
(* Strategy of a plan (src/workflow/actionHandler.js)                      *)
(***************************************************************************)

Categories ==
  <<[name |-> "write", words |-> {"write", "send", "yaz"}],
    [name |-> "timeout", words |-> {"timeout", "mute", "sustur"}],
    [name |-> "purge",
     words |-> {"purge", "clear", "delete", "sil", "temizle"}],
    [name |-> "ban", words |-> {"ban", "yasak"}],
    [name |-> "kick", words |-> {"kick", "at"}],
    [name |-> "role", words |-> {"role", "rol"}],
    [name |-> "channel", words |-> {"channel", "kanal"}],
    [name |-> "nickname", words |-> {"nickname", "nick", "isim"}],
    [name |-> "repeat", words |-> {"repeat", "tekrarla"}]>>

\* The categories a text matches.
Matched(text) ==
  {i \in 1..Len(Categories) :
     \E w \in Categories[i].words : includes(toLowerCase(text), w)}

\* The plan the category makes of a text.
PlanOf(name, text) ==
  CASE name = "write" -> _processWriteCommand(text)
    [] name = "timeout" -> _processTimeoutCommand(text)
    [] name = "purge" -> _processPurgeCommand(text)
    [] name = "ban" -> _processBanCommand(text)
    [] name = "kick" -> _processKickCommand(text)
    [] name = "role" -> _processRoleCommand(text)
    [] name = "channel" -> _processChannelCommand(text)
    [] name = "nickname" -> _processNicknameCommand(text)
    [] name = "repeat" -> _processRepeatCommand(text)

CreatesChannel(text) ==
  /\ includes(toLowerCase(text), "channel")
  /\ hasWord(text, {"create"})
  /\ Matched(text) \cap {1, 2, 3, 4, 6} = {}

\* C40 (as stated): for a text that asks to create a channel the synthesizer
\* returns a plan whose first step is channel.create with the name and the
\* type taken from the text, and that does not require approval.
C40_ChannelCreatePlan ==
  fallback.done /\ CreatesChannel(userText) =>
    /\ fallback.plan.steps # <<>>
    /\ fallback.plan.steps[1].params.action = "channel.create"
    /\ ~fallback.plan.requiresApproval


(***************************************************************************)
(* Shape of the raw action (src/workflow/actionHandler.js 505,             *)
(* src/core/dynamicHandler.js 103-161)                                     *)
(***************************************************************************)

\* 505 of src/workflow/actionHandler.js: /^[a-z]+\.[a-z]+$/.test(action).
isValidActionFormat(action) ==
  \E dot \in 2..(Len(action) - 1) :
    /\ charAt(action, dot) = "."
    /\ \A i \in (1..Len(action)) \ {dot} : charAt(action, i) \in Chars(LowerCase)

\* C33: for a raw action that is not of the shape lowercase category, ".",
\* lowercase verb, executeAction returns a failure without an exact, alias
\* or fuzzy lookup, and no handler of the action table has been called.
C33_MalformedActionNeverDispatched ==
  handled.done /\ ~isValidActionFormat(stepParams.action) =>
    /\ ~handled.result.success
    /\ handled.result.via \notin {"direct", "alias", "fuzzy"}
    /\ handled.calls = <<>>


(***************************************************************************)
(* Order of the pattern path and the lookups                               *)
(* (src/core/dynamicHandler.js 110-121, 157-161)                           *)
(***************************************************************************)

\* C34: a step whose action is a canonical identifier is dispatched to the
\* handler of that identifier whatever the user text is, and a result of a
\* command pattern is returned only for an action that has no exact, alias
\* or fuzzy match.
C34_PatternPathOnlyAfterLookups ==
  handled.done =>
    /\ stepParams.action \in Canonical =>
         /\ handled.result.via = "direct"
         /\ handled.calls =
              <<[handler |-> stepParams.action, action |-> stepParams.action]>>
    /\ handled.result.via = "pattern" =>
         /\ Unmatched(stepParams.action)
         /\ Similar(stepParams.action) = {Null}


(***************************************************************************)
(* End-to-end request path (src/core/bot.js 157-244, 81-92)                *)
(***************************************************************************)

\* C35: in a request whose plan declares the sequential strategy, once the
\* executor has returned a failure for a critical step, no later step of the
\* plan is handed to the action executor: the failed critical step is the
\* last entry of dynamicResults.
C35_CriticalFailureEndsPlan ==
  \A i \in 1..Len(dynamicResults) :
    LET step == plan[1].steps[dynamicResults[i].stepId]
    IN  /\ plan[1].meta.strategy = "sequential"
        /\ step.critical
        /\ ~dynamicResults[i].success
        => i = Len(dynamicResults)


(***************************************************************************)
(* Step cursor of a sequential workflow                                    *)
(* (src/workflow/actionHandler.js 682-724, 956-971)                        *)
(***************************************************************************)

\* C36: while a sequential workflow runs and after it ended, currentStep of
\* its record equals the number of steps whose call has ended and the number
\* of entries of the record's results; for a completed workflow both equal
\* the number of steps of the plan.
C36_CursorCountsProcessedSteps ==
  Sequential(1) /\ wpc[1] \in {"sequential", "returned"} =>
    LET rec == activeWorkflows[workflowId[1]]
    IN  /\ rec.currentStep = Cardinality(Resolved(1))
        /\ rec.currentStep = Len(RecordResults(rec))
        /\ rec.status = "completed" =>
             getWorkflowStatus(workflowId[1]).currentStep = Len(wplan[1].steps)


(***************************************************************************)
(* Listeners added and removed during an emit                              *)
(* (src/core/eventBus.js 81-102, 46-73, 18-39)                             *)
(***************************************************************************)

\* How many times the emit call has invoked the listener of the id.
Invocations(id) == Cardinality({i \in 1..Len(invoked) : invoked[i].id = id})

\* The ids of the listeners of an array.
Ids(array) == {array[i].id : i \in 1..Len(array)}

\* C37: when an emit call has returned, every listener that was in the
\* event's array when the call began and has not been removed since has
\* been invoked exactly once by the call, also when listeners were added
\* and removed while the call was dispatching.
C37_SubscribedInvokedOnce ==
  epc = "returned" =>
    \A id \in Ids(registered) \cap Ids(listeners[emitEvent]) :
      Invocations(id) = 1


(***************************************************************************)
(* Outcome of an accepted session (src/core/bot.js 135-154)                *)
(***************************************************************************)

\* C38: a session whose accept was collected is never reported as expired,
\* and when its handler has ended the plan has been executed; the expired
\* notice is sent only for a session that ended at its deadline.
C38_AcceptedNeverReportedExpired ==
  /\ session[1] = "Approved" => "planExpired" \notin notices[1]
  /\ session[1] = "Approved" /\ pc[1] = "done" => executed[1] = 1
  /\ "planExpired" \in notices[1] => session[1] = "Expired"


(***************************************************************************)
(* Repair of a text that needs none (src/ai/llmService.js 252-348)         *)
(***************************************************************************)

\* C39: for every backend text that parses as it came, the text
\* _fixJsonFormat returns parses to the same structure.
C39_RepairPreservesValidText ==
  fixed.done /\ parses(payload.text) =>
    /\ parses(fixed.text)
    /\ JSONparse(fixed.text) = JSONparse(payload.text)

=============================================================================
